---- MODULE Spec2Model ----
(***************************************************************************)
(* fsagent: the call-termination (QoS) calculator of pkg/calculator/qos.go *)
(* over a channel-state store with per-entry expiry, and the process       *)
(* lifecycle of cmd/fsagent/main.go (startup, signal, graceful shutdown,   *)
(* deferred calls).                                                        *)
(*                                                                         *)
(* Header values are Go strings, modelled as sequences of one-character    *)
(* strings so that strconv's parsing is computed and not assumed.          *)
(* float64 values are integers counting hundredths (FloatScale); the       *)
(* numeric inputs used have at most one fractional digit, so the halving   *)
(* in AvgJitter is exact.                                                  *)
(***************************************************************************)
EXTENDS Integers, Sequences, FiniteSets, TLC

\* ------------------------------------------------------------------ bounds

\* The clock runs from 0 to MaxTime ticks.
MaxTime == 2
\* The time-to-live given to a channel state, in ticks (24h in the program).
StateTTL == 2

\* ----------------------------------------------------------------- strings

EmptyStr == <<>>
U1 == <<"U", "1">>
U2 == <<"U", "2">>
C1 == <<"C", "1">>
G1 == <<"G", "1">>
DCom == <<"d", ".", "c", "o", "m">>
ACom == <<"a", ".", "c", "o", "m">>
BCom == <<"b", ".", "c", "o", "m">>
Fs1 == <<"f", "s", "1">>

DigitChars == <<"0", "1", "2", "3", "4", "5", "6", "7", "8", "9">>
Digits == {DigitChars[i] : i \in 1..10}
DigitValue == [c \in Digits |-> (CHOOSE i \in 1..10 : DigitChars[i] = c) - 1]
DigitVal(c) == DigitValue[c]

IsDigits(s) == Len(s) > 0 /\ \A i \in 1..Len(s) : s[i] \in Digits

RECURSIVE DigitsVal(_)
DigitsVal(s) ==
    IF s = <<>> THEN 0
    ELSE DigitsVal(SubSeq(s, 1, Len(s) - 1)) * 10 + DigitVal(s[Len(s)])

\* strconv.ParseInt(s, 10, 64) and strconv.Atoi: an optional sign, then digits.
ParseInt(s) ==
    LET signed == Len(s) > 0 /\ s[1] \in {"+", "-"}
        body == IF signed THEN Tail(s) ELSE s
    IN  IF IsDigits(body)
        THEN [ok |-> TRUE,
              val |-> IF s[1] = "-" THEN 0 - DigitsVal(body) ELSE DigitsVal(body)]
        ELSE [ok |-> FALSE, val |-> 0]

UInt16Max == 65535
\* strconv.ParseUint(s, 10, 16): digits only, and a range error above 65535.
ParseUint16(s) ==
    IF IsDigits(s) /\ DigitsVal(s) <= UInt16Max
    THEN [ok |-> TRUE, val |-> DigitsVal(s)]
    ELSE [ok |-> FALSE, val |-> 0]

FloatScale == 100
FracVal(f) ==
    IF Len(f) = 0 THEN 0
    ELSE IF Len(f) = 1 THEN 10 * DigitVal(f[1])
    ELSE 10 * DigitVal(f[1]) + DigitVal(f[2])

\* strconv.ParseFloat(s, 64) on decimal notation: [sign] digits [. digits],
\* one of the two digit groups may be empty. The value is in hundredths.
ParseFloat(s) ==
    LET signed == Len(s) > 0 /\ s[1] \in {"+", "-"}
        body == IF signed THEN Tail(s) ELSE s
        dots == {i \in 1..Len(body) : body[i] = "."}
        p == IF dots = {} THEN Len(body) + 1 ELSE CHOOSE i \in dots : TRUE
        ip == SubSeq(body, 1, p - 1)
        fp == SubSeq(body, p + 1, Len(body))
        wellFormed == /\ Cardinality(dots) <= 1
                      /\ ip = <<>> \/ IsDigits(ip)
                      /\ fp = <<>> \/ IsDigits(fp)
                      /\ ~(ip = <<>> /\ fp = <<>>)
        mag == DigitsVal(ip) * FloatScale + FracVal(fp)
    IN  IF wellFormed
        THEN [ok |-> TRUE, val |-> IF s[1] = "-" THEN 0 - mag ELSE mag]
        ELSE [ok |-> FALSE, val |-> 0]

\* ------------------------------------------------------------------ events

IdHeaders == {"Unique-ID", "Other-Leg-Unique-ID", "variable_sip_call_id",
              "variable_global_call_id", "variable_domain_name",
              "variable_sip_from_host", "variable_sip_to_host"}
QualityHeaders == {"variable_rtp_audio_in_mos",
                   "variable_rtp_audio_in_jitter_min_variance",
                   "variable_rtp_audio_in_jitter_max_variance",
                   "variable_rtp_audio_in_mean_interval"}
TrafficHeaders == {"variable_rtp_audio_in_packet_count",
                   "variable_rtp_audio_out_packet_count",
                   "variable_rtp_audio_in_media_bytes",
                   "variable_rtp_audio_out_media_bytes",
                   "variable_rtp_audio_in_skip_packet_count",
                   "variable_rtp_audio_out_skip_packet_count"}
CodecHeaders == {"variable_rtp_use_codec_name", "variable_rtp_use_codec_pt",
                 "variable_rtp_use_codec_ptime", "variable_rtp_use_codec_rate",
                 "variable_local_media_ip", "variable_local_media_port",
                 "variable_remote_media_ip", "variable_remote_media_port",
                 "Event-Date-Timestamp"}
HeaderNames == IdHeaders \cup QualityHeaders \cup TrafficHeaders \cup CodecHeaders

\* FSEvent.GetHeader: the header's value, the empty string when it is absent.
GetHeader(event, name) ==
    IF name \in DOMAIN event THEN event[name] ELSE EmptyStr

\* An event is the mapping of the headers it carries to their values.
\* An optional header is <<>> (absent) or <<v>> (present with value v, which
\* may be the empty string).
NoHeaders == [h \in {} |-> EmptyStr]
With(event, name, opt) ==
    IF opt = <<>> THEN event ELSE (name :> opt[1]) @@ event
Absent == <<>>
Val(v) == <<v>>

Rate8000 == <<"8", "0", "0", "0">>
Mos42 == <<"4", ".", "2">>
Jit10 == <<"1", ".", "0">>
Jit30 == <<"3", ".", "0">>
NotANumber == <<"n", "a">>

\* Every combination of the four correlation headers, with the codec marker
\* present, absent or empty.
CorrEvents ==
    { With(With(With(With(With(NoHeaders,
        "Unique-ID", u), "Other-Leg-Unique-ID", o), "variable_sip_call_id", s),
        "variable_global_call_id", g), "variable_rtp_use_codec_rate", m) :
        u \in {Absent, Val(U1)}, o \in {Absent, Val(U2)}, s \in {Absent, Val(C1)},
        g \in {Absent, Val(G1)}, m \in {Val(Rate8000)} }
    \cup
    { With(With(With(NoHeaders,
        "Unique-ID", u), "Other-Leg-Unique-ID", o), "variable_rtp_use_codec_rate", m) :
        u \in {Val(EmptyStr), Val(U1)}, o \in {Absent, Val(EmptyStr)},
        m \in {Absent, Val(EmptyStr)} }

\* Every combination of the three domain headers.
DomEvents ==
    { With(With(With(With(With(NoHeaders,
        "Unique-ID", u), "variable_domain_name", d), "variable_sip_from_host", f),
        "variable_sip_to_host", t), "variable_rtp_use_codec_rate", Val(Rate8000)) :
        u \in {Val(U1)}, d \in {Absent, Val(DCom)}, f \in {Absent, Val(ACom)},
        t \in {Absent, Val(BCom)} }

\* The other call leg.
LegEvents ==
    { With(With(With(NoHeaders,
        "Unique-ID", Val(U2)), "Other-Leg-Unique-ID", o),
        "variable_rtp_use_codec_rate", Val(Rate8000)) :
        o \in {Absent, Val(U1)} }

\* Scenario A's two events, and quality headers that are absent or do not parse.
EarlyA ==
    ("Unique-ID" :> U1) @@ ("variable_sip_call_id" :> C1)
        @@ ("variable_domain_name" :> DCom)
TermA ==
    ("Unique-ID" :> U1) @@ ("variable_rtp_use_codec_rate" :> Rate8000)
        @@ ("variable_rtp_audio_in_mos" :> Mos42)
        @@ ("variable_rtp_audio_in_jitter_min_variance" :> Jit10)
        @@ ("variable_rtp_audio_in_jitter_max_variance" :> Jit30)
QualEvents ==
    { With(With(With(
        ("Unique-ID" :> U1) @@ ("variable_rtp_use_codec_rate" :> Rate8000),
        "variable_rtp_audio_in_mos", q),
        "variable_rtp_audio_in_jitter_min_variance", a),
        "variable_rtp_audio_in_jitter_max_variance", Val(Jit30)) :
        q \in {Val(Mos42), Val(NotANumber)}, a \in {Absent, Val(Jit10)} }

\* Jitter headers that are absent, zero, negative or do not parse.
Jit00 == <<"0", ".", "0">>
JitNeg == <<"-", "1", ".", "0">>
JitterEvents ==
    { With(With(
        ("Unique-ID" :> U1) @@ ("variable_rtp_use_codec_rate" :> Rate8000),
        "variable_rtp_audio_in_jitter_min_variance", p[1]),
        "variable_rtp_audio_in_jitter_max_variance", p[2]) :
        p \in { <<Val(Jit10), Absent>>, <<Val(Jit10), Val(NotANumber)>>,
                <<Val(JitNeg), Val(Jit30)>>, <<Val(JitNeg), Val(Jit00)>>,
                <<Val(NotANumber), Val(Jit30)>>, <<Absent, Val(Jit00)>> } }

\* The events offered to the termination path.
Events ==
    CorrEvents \cup DomEvents \cup LegEvents \cup QualEvents \cup JitterEvents
        \cup {EarlyA, TermA}

\* The events offered to the early-call path: Scenario A's, one naming the
\* other leg, one with only a signalling host, one of the other leg, and one
\* without a Unique-ID.
EarlyEvents ==
    { EarlyA,
      ("Unique-ID" :> U1) @@ ("Other-Leg-Unique-ID" :> U2),
      ("Unique-ID" :> U1) @@ ("variable_sip_call_id" :> C1)
          @@ ("variable_sip_from_host" :> ACom),
      ("Unique-ID" :> U2) @@ ("variable_sip_to_host" :> BCom),
      ("variable_sip_call_id" :> C1) @@ ("variable_domain_name" :> DCom) }

ChannelIDs == {U1, U2}
Instances == {Fs1}


\* ------------------------------------------------------------------- state

VARIABLES
    store,      \* ChannelStateStore: ChannelID -> entry (state, expiry) or NoEntry
    now,        \* the clock, in ticks
    call        \* the operation performed last, its input and what it returned

calcVars == <<store, now, call>>

VARIABLES
    pc,         \* main's position
    cfg,        \* the loaded configuration: the storage backend
    exitCode,   \* the process's exit code, -1 while it runs
    exitCause,  \* the failure os.Exit(1) followed
    deferred,   \* main's deferred calls, the last deferred first
    cancelled,  \* the root context has been cancelled
    comp,       \* the lifecycle state of each component
    connected,  \* the instances whose connection is up
    calls,      \* the calls main made on its components, in order
    failures,   \* the errors that occurred so far
    waiting,    \* the call main waits in that does not complete, or "none"
    expired     \* the shutdown context's deadline has passed

shutdownVars == <<waiting, expired>>

mainVars == <<pc, cfg, exitCode, exitCause, deferred, cancelled, comp, connected,
              calls, failures, shutdownVars>>

VARIABLES
    calc        \* the CalculateMetrics calls in progress, one per caller

stepVars == <<calc>>

VARIABLES
    once,           \* sync.Once: its done flag and the holder of its mutex
    globalMetrics,  \* the package variable: 0 (nil) or a registry's address
    registries,     \* the InternalMetrics values constructed, by address
    getter          \* the callers of GetMetrics: position and value returned

onceVars == <<once, globalMetrics, registries, getter>>

VARIABLES
    hist,       \* per ChannelID, the last Set or Delete the store completed
    storeOp     \* the store operation performed last and what it returned

storeVars == <<hist, storeOp>>

VARIABLES
    outq,       \* per connection, its bounded outbound queue of events
    shardq,     \* per worker, the bounded queue of its shard
    busy,       \* per worker, the event it is processing
    held,       \* the ChannelIDs whose state the processor has upserted
    accepted,   \* the events the processor accepted, in the order it did
    processed,  \* the events the workers finished, in the order they did
    dropped,    \* the drop counters of the queues
    frames      \* the number of frames the read loops have consumed

pipeVars == <<outq, shardq, busy, held, accepted, processed, dropped, frames>>

VARIABLES
    connState,          \* the state of one ProtocolConnection
    connectFailures,    \* its consecutive connect failures
    delay,              \* the delay of the reconnect scheduled last
    waited              \* the time since that reconnect was scheduled

connVars == <<connState, connectFailures, delay, waited>>

VARIABLES
    registry,   \* InternalMetrics: its mutex and its maps of counters
    incr,       \* per caller, the Increment call it is in
    completed   \* per counter, the Increment calls that have returned

incVars == <<registry, incr, completed>>

VARIABLES
    logOnce,        \* logger's sync.Once: its done flag and its mutex
    defaultLogger,  \* the default logger, nil until it is initialised
    logCall         \* per goroutine, the logger function it is in

logVars == <<logOnce, defaultLogger, logCall>>

\* What the calculator's actions leave alone, and what main's actions leave
\* alone besides main's own variables.
offCalc == <<mainVars, stepVars, onceVars, storeVars, pipeVars, connVars,
             incVars, logVars>>
offMain == <<calcVars, stepVars, onceVars, storeVars, pipeVars, connVars,
             incVars, logVars>>
offStep == <<mainVars, onceVars, storeVars, pipeVars, connVars, incVars,
             logVars>>
offOnce == <<calcVars, mainVars, stepVars, storeVars, pipeVars, connVars,
             incVars, logVars>>
offStore == <<mainVars, stepVars, onceVars, pipeVars, connVars, incVars,
              logVars>>
offPipe == <<calcVars, mainVars, stepVars, onceVars, storeVars, connVars,
             incVars, logVars>>
offConn == <<calcVars, mainVars, stepVars, onceVars, storeVars, pipeVars,
             incVars, logVars>>
offInc == <<calcVars, mainVars, stepVars, onceVars, storeVars, pipeVars,
            connVars, logVars>>
offLog == <<calcVars, mainVars, stepVars, onceVars, storeVars, pipeVars,
            connVars, incVars>>

\* ------------------------------------------------------- ChannelStateStore

NoEntry == [present |-> FALSE]
NoState == [nil |-> TRUE]

Entry(state, exp) == [present |-> TRUE, state |-> state, exp |-> exp]

\* A store in which an entry is returned until the sweep has removed it.
Live_UntilSwept(st, key, t) == st[key].present

\* An entry is live from its Set until its time-to-live has elapsed.
Live(st, key, t) == st[key].present /\ t < st[key].exp

\* Get(key) -> (state, not-found-or-error). fails: the backend fails the call.
StoreGet(st, key, t, fails) ==
    IF fails THEN [state |-> NoState, err |-> "backend"]
    ELSE IF key \in DOMAIN st /\ Live(st, key, t)
         THEN [state |-> st[key].state, err |-> ""]
         ELSE [state |-> NoState, err |-> "not found"]

\* A store whose Set keeps the entry a key already has.
StoreSet_KeepExisting(st, key, state, ttl, t) ==
    IF st[key].present THEN st ELSE [st EXCEPT ![key] = Entry(state, t + ttl)]

\* Set(key, state, ttl): an upsert that resets the expiry.
StoreSet(st, key, state, ttl, t) ==
    [st EXCEPT ![key] = Entry(state, t + ttl)]

\* Delete(key) -> error: idempotent; a call the backend fails removes nothing.
StoreDelete(st, key, fails) ==
    IF fails THEN [store |-> st, err |-> "backend"]
    ELSE [store |-> [st EXCEPT ![key] = NoEntry], err |-> ""]

\* --------------------------------------------------------------- QoSMetrics

NilMetrics == [nil |-> TRUE]

\* A metric that does not carry the instance name.
NewQoSMetrics_NoInstance(t, instanceName, channelID) ==
    [Timestamp |-> t, InstanceName |-> EmptyStr, ChannelID |-> channelID,
     CorrelationID |-> EmptyStr, DomainName |-> EmptyStr,
     MOSScore |-> 0, AvgJitter |-> 0, MinJitter |-> 0, MaxJitter |-> 0, Delta |-> 0,
     TotalPackets |-> 0, PacketLoss |-> 0, TotalBytes |-> 0,
     CodecName |-> EmptyStr, CodecPT |-> 0, PTime |-> 0, ClockRate |-> 0,
     SrcIP |-> EmptyStr, SrcPort |-> 0, DstIP |-> EmptyStr, DstPort |-> 0,
     ReportTimestamp |-> 0]

\* &QoSMetrics{Timestamp: time.Now(), InstanceName: ..., ChannelID: ...}:
\* every other field has Go's zero value.
NewQoSMetrics(t, instanceName, channelID) ==
    [Timestamp |-> t, InstanceName |-> instanceName, ChannelID |-> channelID,
     CorrelationID |-> EmptyStr, DomainName |-> EmptyStr,
     MOSScore |-> 0, AvgJitter |-> 0, MinJitter |-> 0, MaxJitter |-> 0, Delta |-> 0,
     TotalPackets |-> 0, PacketLoss |-> 0, TotalBytes |-> 0,
     CodecName |-> EmptyStr, CodecPT |-> 0, PTime |-> 0, ClockRate |-> 0,
     SrcIP |-> EmptyStr, SrcPort |-> 0, DstIP |-> EmptyStr, DstPort |-> 0,
     ReportTimestamp |-> 0]

\* if s := event.GetHeader(name); s != "" { if v, err := parse(s); err == nil { field = v } }
Parsed(p, old) == IF p.ok THEN p.val ELSE old

FloatField(event, name, old) ==
    LET s == GetHeader(event, name)
    IN  IF s # EmptyStr THEN CHOOSE v \in {Parsed(p, old) : p \in {ParseFloat(s)}} : TRUE
        ELSE old

IntField(event, name, old) ==
    LET s == GetHeader(event, name)
    IN  IF s # EmptyStr THEN CHOOSE v \in {Parsed(p, old) : p \in {ParseInt(s)}} : TRUE
        ELSE old

PortField(event, name, old) ==
    LET s == GetHeader(event, name)
    IN  IF s # EmptyStr THEN CHOOSE v \in {Parsed(p, old) : p \in {ParseUint16(s)}} : TRUE
        ELSE old

StringField(event, name, old) ==
    LET s == GetHeader(event, name)
    IN  IF s # EmptyStr THEN s ELSE old

\* A variant that averages only when both jitter values are positive.
extractQualityMetrics_BothPositive(event, metrics) ==
    LET mos == FloatField(event, "variable_rtp_audio_in_mos", metrics.MOSScore)
        minJ == FloatField(event, "variable_rtp_audio_in_jitter_min_variance",
                           metrics.MinJitter)
        maxJ == FloatField(event, "variable_rtp_audio_in_jitter_max_variance",
                           metrics.MaxJitter)
        avg == IF minJ > 0 /\ maxJ > 0 THEN (minJ + maxJ) \div 2
               ELSE metrics.AvgJitter
        delta == FloatField(event, "variable_rtp_audio_in_mean_interval",
                            metrics.Delta)
    IN  [metrics EXCEPT !.MOSScore = mos, !.MinJitter = minJ, !.MaxJitter = maxJ,
                        !.AvgJitter = avg, !.Delta = delta]

extractQualityMetrics(event, metrics) ==
    LET mos == FloatField(event, "variable_rtp_audio_in_mos", metrics.MOSScore)
        minJ == FloatField(event, "variable_rtp_audio_in_jitter_min_variance",
                           metrics.MinJitter)
        maxJ == FloatField(event, "variable_rtp_audio_in_jitter_max_variance",
                           metrics.MaxJitter)
        avg == IF minJ > 0 \/ maxJ > 0 THEN (minJ + maxJ) \div 2
               ELSE metrics.AvgJitter
        delta == FloatField(event, "variable_rtp_audio_in_mean_interval",
                            metrics.Delta)
    IN  [metrics EXCEPT !.MOSScore = mos, !.MinJitter = minJ, !.MaxJitter = maxJ,
                        !.AvgJitter = avg, !.Delta = delta]

extractTrafficMetrics(event, metrics) ==
    LET inboundPackets == IntField(event, "variable_rtp_audio_in_packet_count", 0)
        outboundPackets == IntField(event, "variable_rtp_audio_out_packet_count", 0)
        inboundBytes == IntField(event, "variable_rtp_audio_in_media_bytes", 0)
        outboundBytes == IntField(event, "variable_rtp_audio_out_media_bytes", 0)
        inboundSkip == IntField(event, "variable_rtp_audio_in_skip_packet_count", 0)
        outboundSkip == IntField(event, "variable_rtp_audio_out_skip_packet_count", 0)
    IN  [metrics EXCEPT !.TotalPackets = inboundPackets + outboundPackets,
                        !.TotalBytes = inboundBytes + outboundBytes,
                        !.PacketLoss = inboundSkip + outboundSkip]

extractCodecInfo(event, metrics) ==
    [metrics EXCEPT
        !.CodecName = StringField(event, "variable_rtp_use_codec_name", @),
        !.CodecPT = IntField(event, "variable_rtp_use_codec_pt", @),
        !.PTime = IntField(event, "variable_rtp_use_codec_ptime", @),
        !.ClockRate = IntField(event, "variable_rtp_use_codec_rate", @),
        !.SrcIP = StringField(event, "variable_local_media_ip", @),
        !.SrcPort = PortField(event, "variable_local_media_port", @),
        !.DstIP = StringField(event, "variable_remote_media_ip", @),
        !.DstPort = PortField(event, "variable_remote_media_port", @),
        !.ReportTimestamp = IntField(event, "Event-Date-Timestamp", @)]


\* A variant that ranks the event's own Unique-ID last.
CorrelationFromHeaders_OwnIdLast(event, metrics) ==
    IF GetHeader(event, "Other-Leg-Unique-ID") # EmptyStr
    THEN GetHeader(event, "Other-Leg-Unique-ID")
    ELSE IF GetHeader(event, "variable_sip_call_id") # EmptyStr
    THEN GetHeader(event, "variable_sip_call_id")
    ELSE IF GetHeader(event, "variable_global_call_id") # EmptyStr
    THEN GetHeader(event, "variable_global_call_id")
    ELSE IF GetHeader(event, "Unique-ID") # EmptyStr
    THEN GetHeader(event, "Unique-ID")
    ELSE metrics.CorrelationID

\* A variant that asks for the signalling call id before the other leg's id.
CorrelationFromHeaders_SipFirst(event, metrics) ==
    IF GetHeader(event, "variable_sip_call_id") # EmptyStr
    THEN GetHeader(event, "variable_sip_call_id")
    ELSE IF GetHeader(event, "Other-Leg-Unique-ID") # EmptyStr
    THEN GetHeader(event, "Other-Leg-Unique-ID")
    ELSE IF GetHeader(event, "Unique-ID") # EmptyStr
    THEN GetHeader(event, "Unique-ID")
    ELSE IF GetHeader(event, "variable_global_call_id") # EmptyStr
    THEN GetHeader(event, "variable_global_call_id")
    ELSE metrics.CorrelationID

\* A variant that asks for the "to" host before the "from" host.
DomainFromHeaders_ToHostFirst(event, metrics) ==
    IF GetHeader(event, "variable_domain_name") # EmptyStr
    THEN GetHeader(event, "variable_domain_name")
    ELSE IF GetHeader(event, "variable_sip_to_host") # EmptyStr
    THEN GetHeader(event, "variable_sip_to_host")
    ELSE IF GetHeader(event, "variable_sip_from_host") # EmptyStr
    THEN GetHeader(event, "variable_sip_from_host")
    ELSE metrics.DomainName

\* Correlation id from the event's own headers, in priority order; metrics'
\* value is kept when all four are empty.
CorrelationFromHeaders(event, metrics) ==
    IF GetHeader(event, "Other-Leg-Unique-ID") # EmptyStr
    THEN GetHeader(event, "Other-Leg-Unique-ID")
    ELSE IF GetHeader(event, "Unique-ID") # EmptyStr
    THEN GetHeader(event, "Unique-ID")
    ELSE IF GetHeader(event, "variable_sip_call_id") # EmptyStr
    THEN GetHeader(event, "variable_sip_call_id")
    ELSE IF GetHeader(event, "variable_global_call_id") # EmptyStr
    THEN GetHeader(event, "variable_global_call_id")
    ELSE metrics.CorrelationID

\* Domain name from the event's own headers, in priority order; metrics' value
\* (the empty string) is kept when all three are empty.
DomainFromHeaders(event, metrics) ==
    IF GetHeader(event, "variable_domain_name") # EmptyStr
    THEN GetHeader(event, "variable_domain_name")
    ELSE IF GetHeader(event, "variable_sip_from_host") # EmptyStr
    THEN GetHeader(event, "variable_sip_from_host")
    ELSE IF GetHeader(event, "variable_sip_to_host") # EmptyStr
    THEN GetHeader(event, "variable_sip_to_host")
    ELSE metrics.DomainName

\* What extractStateAndDomain returns on the header-fallback path.
FromHeaders(event, metrics, st, getErr) ==
    [store |-> st, state |-> NoState, err |-> "",
     metrics |-> [metrics EXCEPT
                     !.CorrelationID = CorrelationFromHeaders(event, metrics),
                     !.DomainName = DomainFromHeaders(event, metrics)],
     get |-> getErr, del |-> "none", warn |-> ""]

\* logger.WarnWithFields(..., "Failed to delete channel state after QoS calculation")
WarnDeleteFailed == "Failed to delete channel state after QoS calculation"

\* What extractStateAndDomain returns on the state-found path, given what
\* Delete returned.
FromState(metrics, state, del) ==
    [store |-> del.store, state |-> state, err |-> "",
     metrics |-> [metrics EXCEPT !.CorrelationID = state.CorrelationID,
                                 !.DomainName = state.DomainName],
     get |-> "found",
     del |-> IF del.err = "" THEN "ok" ELSE del.err,
     warn |-> IF del.err = "" THEN "" ELSE WarnDeleteFailed]

\* A variant that deletes under the correlation id instead of the channel id.
extractStateAndDomain_DeleteWrongKey(event, metrics, st, t, getFails, delFails) ==
    LET got == StoreGet(st, metrics.ChannelID, t, getFails)
    IN  IF got.err = ""
        THEN FromState(metrics, got.state,
                       StoreDelete(st, got.state.CorrelationID, delFails))
        ELSE FromHeaders(event, metrics, st, got.err)

\* A variant that falls back to the event's headers when a stored id is empty.
extractStateAndDomain_FillEmptyFromHeaders(event, metrics, st, t, getFails, delFails) ==
    LET got == StoreGet(st, metrics.ChannelID, t, getFails)
        base == FromState(metrics, got.state,
                          StoreDelete(st, metrics.ChannelID, delFails))
    IN  IF got.err = ""
        THEN [base EXCEPT !.metrics.CorrelationID =
                              IF @ = EmptyStr THEN CorrelationFromHeaders(event, metrics) ELSE @,
                          !.metrics.DomainName =
                              IF @ = EmptyStr THEN DomainFromHeaders(event, metrics) ELSE @]
        ELSE FromHeaders(event, metrics, st, got.err)

\* A variant that returns the store's error when Get fails in the backend.
extractStateAndDomain_FailOnBackendError(event, metrics, st, t, getFails, delFails) ==
    LET got == StoreGet(st, metrics.ChannelID, t, getFails)
    IN  IF got.err = ""
        THEN FromState(metrics, got.state,
                       StoreDelete(st, metrics.ChannelID, delFails))
        ELSE IF got.err = "backend"
        THEN [FromHeaders(event, metrics, st, got.err) EXCEPT !.err = "backend"]
        ELSE FromHeaders(event, metrics, st, got.err)

\* A variant that fails the event when Delete fails.
extractStateAndDomain_FailOnDeleteError(event, metrics, st, t, getFails, delFails) ==
    LET got == StoreGet(st, metrics.ChannelID, t, getFails)
        base == FromState(metrics, got.state,
                          StoreDelete(st, metrics.ChannelID, delFails))
    IN  IF got.err = ""
        THEN [base EXCEPT !.err = IF base.del = "ok" THEN "" ELSE base.del]
        ELSE FromHeaders(event, metrics, st, got.err)

\* extractStateAndDomain: Get the channel state; found: take its ids and Delete
\* it (a Delete error is only logged); otherwise derive the ids from the event.
\* Returns the metrics, the store, and what Get and Delete returned.
extractStateAndDomain(event, metrics, st, t, getFails, delFails) ==
    LET channelID == metrics.ChannelID
        got == StoreGet(st, channelID, t, getFails)
    IN  IF got.err = ""
        THEN FromState(metrics, got.state, StoreDelete(st, channelID, delFails))
        ELSE FromHeaders(event, metrics, st, got.err)

ErrNoCodecRate == "variable_rtp_use_codec_rate not present, skipping QoS calculation"
ErrNoUniqueID == "CHANNEL_DESTROY event missing Unique-ID"

\* An early return that clears the store.
EarlyReturn_ClearStore(err, st) ==
    [store |-> [k \in DOMAIN st |-> NoEntry], state |-> NoState, err |-> err,
     metrics |-> NilMetrics, get |-> "none", del |-> "none", warn |-> ""]

\* What CalculateMetrics returns when it returns before touching the store.
EarlyReturn(err, st) ==
    [store |-> st, state |-> NoState, err |-> err, metrics |-> NilMetrics,
     get |-> "none", del |-> "none", warn |-> ""]

\* CalculateMetrics(ctx, event, instanceName) -> (*QoSMetrics, error), with the
\* store it leaves behind. The three extract* helpers before
\* extractStateAndDomain always return nil.
CalculateMetrics(event, instanceName, st, t, getFails, delFails) ==
    IF GetHeader(event, "variable_rtp_use_codec_rate") = EmptyStr
    THEN EarlyReturn(ErrNoCodecRate, st)
    ELSE IF GetHeader(event, "Unique-ID") = EmptyStr
    THEN EarlyReturn(ErrNoUniqueID, st)
    ELSE LET \* each stage is evaluated once and handed on as a value
             s0 == {NewQoSMetrics(t, instanceName, GetHeader(event, "Unique-ID"))}
             s1 == {extractQualityMetrics(event, m) : m \in s0}
             s2 == {extractTrafficMetrics(event, m) : m \in s1}
             s3 == {extractCodecInfo(event, m) : m \in s2}
             s4 == {extractStateAndDomain(event, m, st, t, getFails, delFails) : m \in s3}
             \* if err != nil { return nil, fmt.Errorf(...) }
             s5 == {IF r.err # "" THEN [r EXCEPT !.metrics = NilMetrics] ELSE r : r \in s4}
         IN  CHOOSE r \in s5 : TRUE

\* ---------------------------------------------- EventProcessor, early call

NoIds == [CorrelationID |-> EmptyStr, DomainName |-> EmptyStr]

\* The ChannelState an early-call event yields: ids by the header-priority
\* rule of the termination fallback.
DeriveChannelState(event, instanceName) ==
    [InstanceName |-> instanceName,
     ChannelID |-> GetHeader(event, "Unique-ID"),
     CorrelationID |-> CorrelationFromHeaders(event, NoIds),
     DomainName |-> DomainFromHeaders(event, NoIds)]

\* ----------------------------------------------------------------- actions

Idle(op) ==
    [event |-> NoHeaders, state |-> NoState, err |-> "", metrics |-> NilMetrics,
     get |-> "none", del |-> "none", warn |-> "", op |-> op,
     instance |-> EmptyStr]

\* A call-termination event reaches the QoS calculator.
Termination ==
    \E event \in Events, inst \in Instances, getFails \in BOOLEAN, delFails \in BOOLEAN :
        \E r \in {CalculateMetrics(event, inst, store, now, getFails, delFails)} :
            /\ getFails => r.get = "backend"
            /\ delFails => r.del = "backend"
            /\ store' = r.store
            /\ call' = [event |-> event, state |-> r.state, err |-> r.err,
                        metrics |-> r.metrics, get |-> r.get, del |-> r.del,
                        warn |-> r.warn,
                        op |-> "termination", instance |-> inst]
            /\ now' = now
            /\ UNCHANGED offCalc

\* An early-call event: upsert the derived ChannelState under its ChannelID,
\* refreshing the time-to-live. A store error is logged and the event dropped.
EarlyCall ==
    \E event \in EarlyEvents, inst \in Instances, setFails \in BOOLEAN :
        \E state \in {DeriveChannelState(event, inst)} :
            /\ state.ChannelID # EmptyStr
            /\ store' = IF setFails THEN store
                        ELSE StoreSet(store, state.ChannelID, state, StateTTL, now)
            /\ call' = [Idle("early") EXCEPT !.event = event, !.instance = inst,
                            !.err = IF setFails THEN "backend" ELSE "",
                            !.state = state]
            /\ now' = now
            /\ UNCHANGED offCalc

\* Time passes.
Tick ==
    /\ now < MaxTime
    /\ now' = now + 1
    /\ call' = Idle("tick")
    /\ store' = store
    /\ UNCHANGED offCalc

\* The in-process store's background sweep removes the expired entries.
Sweep ==
    /\ \E k \in ChannelIDs : store[k].present /\ ~Live(store, k, now)
    /\ store' = [k \in ChannelIDs |-> IF Live(store, k, now) THEN store[k] ELSE NoEntry]
    /\ call' = Idle("sweep")
    /\ now' = now
    /\ UNCHANGED offCalc

CalcInit ==
    /\ store = [k \in ChannelIDs |-> NoEntry]
    /\ now = 0
    /\ call = Idle("none")

\* ------------------------------------------------ the store's operations
\* Set, Get and Delete called on the store directly, as the processor, the
\* calculator and the startup validation call them, with time passing and
\* the sweep running in between.

TTLs == 1..StateTTL

\* What the store has completed for a key: nothing, a Set (of a state, at a
\* time, with a time-to-live) or a Delete.
NoHist == [state |-> NoState, ttl |-> 0, op |-> "none", at |-> 0]

NoStoreOp == [state |-> NoState, key |-> EmptyStr, err |-> "", op |-> "none",
              prior |-> NoState]

StoreInit ==
    /\ hist = [k \in ChannelIDs |-> NoHist]
    /\ storeOp = NoStoreOp

\* The states the operations store: the early-call events' states.
StoreStates ==
    {DeriveChannelState(e, i) : e \in EarlyEvents, i \in Instances}

\* Set(key, state, ttl)
StoreOpSet ==
    /\ \E state \in StoreStates, ttl \in TTLs, fails \in BOOLEAN :
          LET key == state.ChannelID IN
          /\ key \in ChannelIDs
          /\ store' = IF fails THEN store ELSE StoreSet(store, key, state, ttl, now)
          /\ hist' = IF fails THEN hist
                     ELSE [hist EXCEPT ![key] = [state |-> state, ttl |-> ttl,
                                                 op |-> "set", at |-> now]]
          /\ storeOp' = [state |-> state, key |-> key,
                         err |-> IF fails THEN "backend" ELSE "", op |-> "Set",
                         prior |-> StoreGet(store, key, now, FALSE).state]
    /\ UNCHANGED <<now, call>>
    /\ UNCHANGED offStore

\* Get(key)
StoreOpGet ==
    /\ \E key \in ChannelIDs, fails \in BOOLEAN :
          \E got \in {StoreGet(store, key, now, fails)} :
             storeOp' = [state |-> got.state, key |-> key, err |-> got.err,
                         op |-> "Get", prior |-> NoState]
    /\ UNCHANGED <<store, now, call, hist>>
    /\ UNCHANGED offStore

\* Delete(key)
StoreOpDelete ==
    /\ \E key \in ChannelIDs, fails \in BOOLEAN :
          \E del \in {StoreDelete(store, key, fails)} :
             /\ store' = del.store
             /\ hist' = IF fails THEN hist
                        ELSE [hist EXCEPT ![key] = [NoHist EXCEPT !.op = "delete",
                                                                  !.at = now]]
             /\ storeOp' = [state |-> NoState, key |-> key, err |-> del.err,
                            op |-> "Delete",
                            prior |-> StoreGet(store, key, now, FALSE).state]
    /\ UNCHANGED <<now, call>>
    /\ UNCHANGED offStore

\* ------------------------------------------- CalculateMetrics, step by step
\* Several CalculateMetrics calls run at once on one store (duplicate
\* termination events, or agents sharing a networked store): each call is a
\* sequence of steps, and the steps of different calls interleave.

NumCalcs == 2
Calcs == 1..NumCalcs

\* The events of the concurrent calls: Scenario A's termination, the other
\* leg's, and one without the codec marker.
StepEvents ==
    { TermA,
      ("Unique-ID" :> U2) @@ ("Other-Leg-Unique-ID" :> U1)
          @@ ("variable_rtp_use_codec_rate" :> Rate8000),
      ("Unique-ID" :> U1) @@ ("variable_sip_call_id" :> C1) }

\* The steps of CalculateMetrics after its two checks, in the order of the
\* calls it makes; extractStateAndDomain is its Get and, on the found path,
\* its Delete.
CalcSteps_LookupFirst ==
    <<"Get", "Delete", "extractQualityMetrics", "extractTrafficMetrics",
      "extractCodecInfo">>

CalcSteps ==
    <<"extractQualityMetrics", "extractTrafficMetrics", "extractCodecInfo",
      "Get", "Delete">>

Returned == Len(CalcSteps) + 1

\* A call that has not begun.
NoCalc ==
    [event |-> NoHeaders, state |-> NoState, err |-> "", metrics |-> NilMetrics,
     get |-> "none", del |-> "none", at |-> 0, steps |-> <<>>]

StepInit == calc = [a \in Calcs |-> NoCalc]

\* The call is at the step named `step`.
AtStep(a, step) ==
    /\ calc[a].at \in 1..Len(CalcSteps)
    /\ CalcSteps[calc[a].at] = step

\* The step is done: the call moves on by `n` steps.
Done(c, step, n) ==
    [c EXCEPT !.at = @ + n, !.steps = Append(@, step)]

\* CalculateMetrics begins: the marker and Unique-ID checks, and the metric
\* with the event's ChannelID.
StepBegin(a) ==
    /\ calc[a].at = 0
    /\ \E event \in StepEvents, inst \in Instances :
          calc' = [calc EXCEPT ![a] =
              IF GetHeader(event, "variable_rtp_use_codec_rate") = EmptyStr
              THEN [NoCalc EXCEPT !.event = event, !.err = ErrNoCodecRate,
                                  !.at = Returned]
              ELSE IF GetHeader(event, "Unique-ID") = EmptyStr
              THEN [NoCalc EXCEPT !.event = event, !.err = ErrNoUniqueID,
                                  !.at = Returned]
              ELSE [NoCalc EXCEPT !.event = event, !.at = 1,
                       !.metrics = NewQoSMetrics(now, inst,
                                                 GetHeader(event, "Unique-ID"))]]
    /\ UNCHANGED <<store, now, call>>
    /\ UNCHANGED offStep

\* One of the three extract* calls that read only the event.
StepExtract(a) ==
    /\ \E step \in {"extractQualityMetrics", "extractTrafficMetrics",
                    "extractCodecInfo"} :
          /\ AtStep(a, step)
          /\ \E m \in {CASE step = "extractQualityMetrics" ->
                              extractQualityMetrics(calc[a].event, calc[a].metrics)
                         [] step = "extractTrafficMetrics" ->
                              extractTrafficMetrics(calc[a].event, calc[a].metrics)
                         [] step = "extractCodecInfo" ->
                              extractCodecInfo(calc[a].event, calc[a].metrics)} :
                calc' = [calc EXCEPT ![a] = [Done(@, step, 1) EXCEPT !.metrics = m]]
    /\ UNCHANGED <<store, now, call>>
    /\ UNCHANGED offStep

\* extractStateAndDomain, the lookup: found, the ids are the state's and the
\* Delete follows; otherwise the ids come from the headers and no Delete.
StepGet(a) ==
    /\ AtStep(a, "Get")
    /\ \E getFails \in BOOLEAN :
          \E got \in {StoreGet(store, calc[a].metrics.ChannelID, now, getFails)} :
             calc' = [calc EXCEPT ![a] =
                 IF got.err = ""
                 THEN [Done(@, "Get", 1) EXCEPT
                          !.state = got.state,
                          !.metrics.CorrelationID = got.state.CorrelationID,
                          !.metrics.DomainName = got.state.DomainName,
                          !.get = "found"]
                 ELSE [Done(@, "Get", 2) EXCEPT
                          !.metrics = FromHeaders(calc[a].event, @, store,
                                                  got.err).metrics,
                          !.get = got.err]]
    /\ UNCHANGED <<store, now, call>>
    /\ UNCHANGED offStep

\* extractStateAndDomain, the Delete of the state found; its error is logged.
StepDelete(a) ==
    /\ AtStep(a, "Delete")
    /\ calc[a].get = "found"
    /\ \E delFails \in BOOLEAN :
          \E del \in {StoreDelete(store, calc[a].metrics.ChannelID, delFails)} :
             /\ store' = del.store
             /\ calc' = [calc EXCEPT ![a] =
                    [Done(@, "Delete", 1) EXCEPT
                        !.del = IF del.err = "" THEN "ok" ELSE del.err]]
    /\ UNCHANGED <<now, call>>
    /\ UNCHANGED offStep

\* One early-call event is processed before the calls begin.
StepSeed ==
    /\ \A a \in Calcs : calc[a].at = 0
    /\ call.op = "none"
    /\ EarlyCall

\* ============================================================ process: main
\* The process of cmd/fsagent: main's statements one step at a time, the
\* components it starts, and what the root context's cancellation does to them.

NumInstances == 2
ConfiguredInstances == 1..NumInstances

StorageTypes == {"memory", "redis"}

\* An error is returned or not.
Errs == BOOLEAN

NoComponents ==
    [stateStore |-> "none", metricsExporter |-> "none", eventProcessor |-> "none",
     connManager |-> "none", httpServer |-> "none"]

MainInit ==
    /\ pc = "flags"
    /\ cfg = "none"
    /\ exitCode = -1
    /\ exitCause = "none"
    /\ deferred = <<>>
    /\ cancelled = FALSE
    /\ comp = NoComponents
    /\ connected = {}
    /\ calls = <<>>
    /\ failures = {}
    /\ waiting = "none"
    /\ expired = FALSE

\* os.Exit: the process ends at once; the deferred calls do not run.
Exit(code, cause) ==
    /\ pc' = "exited"
    /\ exitCode' = code
    /\ exitCause' = cause

\* The statement at `next` is reached.
Goto(next) ==
    /\ pc' = next
    /\ exitCode' = exitCode
    /\ exitCause' = exitCause

\* defer f(): f runs when main returns, the last deferred first.
Defer(f) == <<f>> \o deferred

\* A failure that ends the process: it is logged and os.Exit(1) follows.
Fatal(cause) ==
    /\ failures' = failures \cup {cause}
    /\ Exit(1, cause)

\* An error that is logged and nothing else.
Logged(err, what) == IF err THEN failures \cup {what} ELSE failures

\* -version and -help print and exit with code 0.
ParseFlags ==
    /\ pc = "flags"
    /\ \E flag \in {"none", "version", "help"} :
          IF flag = "none" THEN Goto("config") ELSE Exit(0, flag)
    /\ UNCHANGED <<cfg, deferred, cancelled, comp, connected, calls, failures>>
    /\ UNCHANGED shutdownVars
    /\ UNCHANGED offMain

\* config.Load: a failure ends the process.
LoadConfig ==
    /\ pc = "config"
    /\ \E err \in Errs, type \in StorageTypes :
          IF err
          THEN Fatal("config.Load") /\ cfg' = cfg
          ELSE Goto("validateStateStore") /\ cfg' = type /\ failures' = failures
    /\ UNCHANGED <<deferred, cancelled, comp, connected, calls>>
    /\ UNCHANGED shutdownVars
    /\ UNCHANGED offMain

\* store.NewStateStore as main calls it: the memory store always succeeds,
\* the redis store may fail.
NewStateStoreErrs(type) == IF type = "redis" THEN Errs ELSE {FALSE}

\* validateStateStore: a temporary store is created, one Set, Get and Delete
\* are tried on it, and the first failure is returned.
ValidateStateStoreOutcomes(type) ==
    {"ok", "validate.Set", "validate.Get", "validate.Delete"}
        \cup {"validate.NewStateStore" : err \in NewStateStoreErrs(type) \ {FALSE}}

\* validateOTelEndpoint: a test exporter is created, started and stopped; a
\* failure to create or start it is returned, a failure to stop it is logged.
ValidateOTelOutcomes ==
    {"ok", "validate.NewMetricsExporter", "validate.exporter.Start",
     "validate.exporter.Stop"}

\* validateStartup, first half: a failure ends the process.
ValidateStateStore ==
    /\ pc = "validateStateStore"
    /\ \E outcome \in ValidateStateStoreOutcomes(cfg) :
          IF outcome = "ok"
          THEN Goto("validateOTelEndpoint") /\ failures' = failures
          ELSE Fatal(outcome)
    /\ UNCHANGED <<cfg, deferred, cancelled, comp, connected, calls>>
    /\ UNCHANGED shutdownVars
    /\ UNCHANGED offMain

\* validateStartup, second half: a failure ends the process, except the test
\* exporter's failure to stop.
ValidateOTelEndpoint ==
    /\ pc = "validateOTelEndpoint"
    /\ \E outcome \in ValidateOTelOutcomes :
          IF outcome \in {"ok", "validate.exporter.Stop"}
          THEN /\ Goto("context")
               /\ failures' = Logged(outcome # "ok", outcome)
          ELSE Fatal(outcome)
    /\ UNCHANGED <<cfg, deferred, cancelled, comp, connected, calls>>
    /\ UNCHANGED shutdownVars
    /\ UNCHANGED offMain

\* ctx, cancel := context.WithCancel(...); defer cancel()
CreateContext ==
    /\ pc = "context"
    /\ Goto("NewStateStore")
    /\ deferred' = Defer("cancel")
    /\ UNCHANGED <<cfg, cancelled, comp, connected, calls, failures>>
    /\ UNCHANGED shutdownVars
    /\ UNCHANGED offMain

\* The state store is constructed: a failure ends the process.
NewStateStore ==
    /\ pc = "NewStateStore"
    /\ \E err \in NewStateStoreErrs(cfg) :
          IF err
          THEN Fatal("NewStateStore") /\ UNCHANGED <<deferred, comp, calls>>
          ELSE /\ Goto("NewCalculators")
               /\ failures' = failures
               /\ comp' = [comp EXCEPT !.stateStore = "open"]
               /\ calls' = Append(calls, "NewStateStore")
               /\ deferred' = Defer("stateStore.Close")
    /\ UNCHANGED <<cfg, cancelled, connected>>
    /\ UNCHANGED shutdownVars
    /\ UNCHANGED offMain

\* calculator.NewRTCPCalculator(stateStore), calculator.NewQoSCalculator(
\* stateStore): the calculators are constructed on the store.
NewCalculators ==
    /\ pc = "NewCalculators"
    /\ calls' = Append(calls, "NewCalculators")
    /\ Goto("NewMetricsExporter")
    /\ UNCHANGED <<cfg, deferred, cancelled, comp, connected, failures>>
    /\ UNCHANGED shutdownVars
    /\ UNCHANGED offMain

\* The exporter is constructed: a failure ends the process.
NewMetricsExporter ==
    /\ pc = "NewMetricsExporter"
    /\ \E err \in Errs :
          IF err
          THEN Fatal("NewMetricsExporter") /\ UNCHANGED <<comp, calls>>
          ELSE /\ Goto("eventProcessor.Start")
               /\ failures' = failures
               /\ comp' = [comp EXCEPT !.metricsExporter = "created"]
               /\ calls' = Append(calls, "NewMetricsExporter")
    /\ UNCHANGED <<cfg, deferred, cancelled, connected>>
    /\ UNCHANGED shutdownVars
    /\ UNCHANGED offMain

\* The processor is constructed and started: a failure ends the process.
EventProcessorStart ==
    /\ pc = "eventProcessor.Start"
    /\ \E err \in Errs :
          IF err
          THEN Fatal("eventProcessor.Start") /\ UNCHANGED <<deferred, comp, calls>>
          ELSE /\ Goto("SetEventForwarder")
               /\ failures' = failures
               /\ comp' = [comp EXCEPT !.eventProcessor = "running"]
               /\ calls' = Append(calls, "eventProcessor.Start")
               /\ deferred' = Defer("eventProcessor.Stop")
    /\ UNCHANGED <<cfg, cancelled, connected>>
    /\ UNCHANGED shutdownVars
    /\ UNCHANGED offMain

\* A main that starts the connection manager without registering the
\* processor with it.
SetEventForwarder_NotRegistered ==
    /\ pc = "SetEventForwarder"
    /\ calls' = calls
    /\ Goto("connManager.Start")
    /\ UNCHANGED <<cfg, deferred, cancelled, comp, connected, failures>>
    /\ UNCHANGED shutdownVars
    /\ UNCHANGED offMain

\* The connection manager is constructed and the processor is registered
\* with it as the event forwarder.
SetEventForwarder ==
    /\ pc = "SetEventForwarder"
    /\ calls' = Append(calls, "SetEventForwarder")
    /\ Goto("connManager.Start")
    /\ UNCHANGED <<cfg, deferred, cancelled, comp, connected, failures>>
    /\ UNCHANGED shutdownVars
    /\ UNCHANGED offMain

\* A main that ends the process when connManager.Start returns an error.
ConnManagerStart_FatalOnError ==
    /\ pc = "connManager.Start"
    /\ \E up \in SUBSET ConfiguredInstances, err \in Errs :
          /\ up = {} => err
          /\ up = ConfiguredInstances => ~err
          /\ connected' = up
          /\ IF err THEN Fatal("connManager.Start")
                    ELSE Goto("GetStatus") /\ failures' = failures
    /\ comp' = [comp EXCEPT !.connManager = "running"]
    /\ calls' = Append(calls, "connManager.Start")
    /\ deferred' = Defer("connManager.Stop")
    /\ UNCHANGED <<cfg, cancelled>>
    /\ UNCHANGED shutdownVars
    /\ UNCHANGED offMain

\* connManager.Start(ctx): every instance is dialled and the ones in `up`
\* connect; Start fails when none does, and may report the ones that did
\* not. main logs the error as a warning and goes on.
ConnManagerStart ==
    /\ pc = "connManager.Start"
    /\ \E up \in SUBSET ConfiguredInstances, err \in Errs :
          /\ up = {} => err
          /\ up = ConfiguredInstances => ~err
          /\ connected' = up
          /\ failures' = Logged(err, "connManager.Start")
    /\ Goto("GetStatus")
    /\ comp' = [comp EXCEPT !.connManager = "running"]
    /\ calls' = Append(calls, "connManager.Start")
    /\ deferred' = Defer("connManager.Stop")
    /\ UNCHANGED <<cfg, cancelled>>
    /\ UNCHANGED shutdownVars
    /\ UNCHANGED offMain

\* A main that goes on only when every configured instance is connected.
CheckConnections_AllRequired ==
    /\ pc = "GetStatus"
    /\ LET activeConnections == Cardinality(connected)
       IN  IF activeConnections < NumInstances
           THEN Fatal("no connections")
           ELSE Goto("httpServer.Start") /\ failures' = failures
    /\ UNCHANGED <<cfg, deferred, cancelled, comp, connected, calls>>
    /\ UNCHANGED shutdownVars
    /\ UNCHANGED offMain

\* connManager.GetStatus(): no connected instance ends the process.
CheckConnections ==
    /\ pc = "GetStatus"
    /\ LET activeConnections == Cardinality(connected)
       IN  IF activeConnections = 0
           THEN Fatal("no connections")
           ELSE Goto("httpServer.Start") /\ failures' = failures
    /\ UNCHANGED <<cfg, deferred, cancelled, comp, connected, calls>>
    /\ UNCHANGED shutdownVars
    /\ UNCHANGED offMain

\* The HTTP server is constructed and started: a failure ends the process.
HTTPServerStart ==
    /\ pc = "httpServer.Start"
    /\ \E err \in Errs :
          IF err
          THEN Fatal("httpServer.Start") /\ UNCHANGED <<deferred, comp, calls>>
          ELSE /\ Goto("signal")
               /\ failures' = failures
               /\ comp' = [comp EXCEPT !.httpServer = "running"]
               /\ calls' = Append(calls, "httpServer.Start")
               /\ deferred' = Defer("httpServer.Stop")
    /\ UNCHANGED <<cfg, cancelled, connected>>
    /\ UNCHANGED shutdownVars
    /\ UNCHANGED offMain

\* <-sigChan: an interrupt or SIGTERM arrives and gracefulShutdown is called.
AwaitSignal ==
    /\ pc = "signal"
    /\ Goto("gracefulShutdown")
    /\ UNCHANGED <<cfg, deferred, cancelled, comp, connected, calls, failures>>
    /\ UNCHANGED shutdownVars
    /\ UNCHANGED offMain

\* What a tear-down call does to its component: Stop and Close return once
\* the component is down, with an error or without.
Invoke(f) ==
    /\ calls' = Append(calls, f)
    /\ cancelled' = (cancelled \/ f = "cancel")
    /\ comp' = CASE f = "httpServer.Stop" -> [comp EXCEPT !.httpServer = "stopped"]
                 [] f = "connManager.Stop" -> [comp EXCEPT !.connManager = "stopped"]
                 [] f = "eventProcessor.Stop" -> [comp EXCEPT !.eventProcessor = "stopped"]
                 [] f = "metricsExporter.Stop" -> [comp EXCEPT !.metricsExporter = "stopped"]
                 [] f = "stateStore.Close" -> [comp EXCEPT !.stateStore = "closed"]
                 [] OTHER -> comp
    /\ connected' = IF f = "connManager.Stop" THEN {} ELSE connected

\* One stage of gracefulShutdown: the call is made, its error is logged, and
\* the next stage follows whatever it returned.
ShutdownStage(f, next) ==
    /\ waiting = "none"
    /\ \E outcome \in {"ok", "error", "never"} :
          IF outcome = "never"
          THEN \* the call is made and does not return: main waits in it
               /\ calls' = Append(calls, f)
               /\ waiting' = f
               /\ UNCHANGED <<pc, exitCode, exitCause, cancelled, comp, connected,
                              failures>>
          ELSE /\ Invoke(f)
               /\ failures' = Logged(outcome = "error", f)
               /\ Goto(next)
               /\ waiting' = waiting
    /\ expired' = expired
    /\ UNCHANGED <<cfg, deferred>>
    /\ UNCHANGED offMain

\* The positions of main inside gracefulShutdown, after the shutdown context
\* was created.
ShutdownStages ==
    {"httpServer.Stop", "connManager.Stop", "eventProcessor.Stop",
     "metricsExporter.Stop", "stateStore.Close"}

\* The shutdown context's 30 seconds pass.
ShutdownDeadline ==
    /\ pc \in ShutdownStages
    /\ ~expired
    /\ expired' = TRUE
    /\ UNCHANGED <<pc, cfg, exitCode, exitCause, deferred, cancelled, comp,
                   connected, calls, failures, waiting>>
    /\ UNCHANGED offMain

\* metricsExporter.Stop(shutdownCtx), the one call that is given the
\* shutdown context: when the deadline passes it returns with an error.
ExporterStopDeadline ==
    /\ waiting = "metricsExporter.Stop"
    /\ expired
    /\ waiting' = "none"
    /\ comp' = [comp EXCEPT !.metricsExporter = "stopped"]
    /\ failures' = Logged(TRUE, "metricsExporter.Stop")
    /\ Goto("stateStore.Close")
    /\ UNCHANGED <<cfg, deferred, cancelled, connected, calls, expired>>
    /\ UNCHANGED offMain

\* gracefulShutdown begins: the root context is cancelled before any Stop.
ShutdownCancel ==
    /\ pc = "gracefulShutdown"
    /\ Invoke("cancel")
    /\ Goto("httpServer.Stop")
    /\ UNCHANGED <<cfg, deferred, failures>>
    /\ UNCHANGED shutdownVars
    /\ UNCHANGED offMain

ShutdownHTTPServer ==
    /\ pc = "httpServer.Stop"
    /\ ShutdownStage("httpServer.Stop", "connManager.Stop")

ShutdownConnManager ==
    /\ pc = "connManager.Stop"
    /\ ShutdownStage("connManager.Stop", "eventProcessor.Stop")

ShutdownEventProcessor ==
    /\ pc = "eventProcessor.Stop"
    /\ ShutdownStage("eventProcessor.Stop", "metricsExporter.Stop")

ShutdownMetricsExporter ==
    /\ pc = "metricsExporter.Stop"
    /\ ShutdownStage("metricsExporter.Stop", "stateStore.Close")

ShutdownStateStore ==
    /\ pc = "stateStore.Close"
    /\ ShutdownStage("stateStore.Close", "return")

\* main returns: the deferred calls run, the last deferred first, their
\* results discarded; then the process exits with code 0.
RunDeferred ==
    /\ pc = "return"
    /\ deferred # <<>>
    /\ Invoke(Head(deferred))
    /\ deferred' = Tail(deferred)
    /\ Goto("return")
    /\ UNCHANGED <<cfg, failures>>
    /\ UNCHANGED shutdownVars
    /\ UNCHANGED offMain

MainReturn ==
    /\ pc = "return"
    /\ deferred = <<>>
    /\ Exit(0, "none")
    /\ UNCHANGED <<cfg, deferred, cancelled, comp, connected, calls, failures>>
    /\ UNCHANGED shutdownVars
    /\ UNCHANGED offMain

\* The root context's cancellation reaches the processor, which was started
\* with it: its workers give up the events in flight.
EventProcessorCtxDone ==
    /\ pc # "exited"
    /\ cancelled
    /\ comp.eventProcessor = "running"
    /\ comp' = [comp EXCEPT !.eventProcessor = "cancelled"]
    /\ UNCHANGED <<pc, cfg, exitCode, exitCause, deferred, cancelled, connected,
                   calls, failures>>
    /\ UNCHANGED shutdownVars
    /\ UNCHANGED offMain

\* The root context's cancellation reaches a connection, which closes.
ConnectionCtxDone ==
    /\ pc # "exited"
    /\ cancelled
    /\ \E i \in connected : connected' = connected \ {i}
    /\ UNCHANGED <<pc, cfg, exitCode, exitCause, deferred, cancelled, comp,
                   calls, failures>>
    /\ UNCHANGED shutdownVars
    /\ UNCHANGED offMain

\* A connection's reconnect loop succeeds in the background.
ConnectionUp ==
    /\ pc # "exited"
    /\ ~cancelled
    /\ comp.connManager = "running"
    /\ \E i \in ConfiguredInstances \ connected : connected' = connected \cup {i}
    /\ UNCHANGED <<pc, cfg, exitCode, exitCause, deferred, cancelled, comp,
                   calls, failures>>
    /\ UNCHANGED shutdownVars
    /\ UNCHANGED offMain

\* A connection is lost: a read error or a missed keepalive reply.
ConnectionDown ==
    /\ pc # "exited"
    /\ comp.connManager = "running"
    /\ \E i \in connected : connected' = connected \ {i}
    /\ UNCHANGED <<pc, cfg, exitCode, exitCause, deferred, cancelled, comp,
                   calls, failures>>
    /\ UNCHANGED shutdownVars
    /\ UNCHANGED offMain

\* ============================================================= GetMetrics
\* Concurrent callers of metrics.GetMetrics: once.Do with the function that
\* constructs the registry, then the read of globalMetrics. sync.Once is an
\* atomic done flag and a mutex: Do returns at once when done is set;
\* otherwise it takes the mutex, looks at done again, runs the function if it
\* is still unset, sets done and releases the mutex.

NumCallers == 3
Callers == 1..NumCallers

\* &InternalMetrics{...}: each of the six maps is made.
NewInternalMetrics ==
    [eventsReceived |-> "map", eventsProcessed |-> "map",
     rtcpMessagesProcessed |-> "map", qosMessagesGenerated |-> "map",
     storageOperations |-> "map", fsConnections |-> "map"]

OnceInit ==
    /\ once = [done |-> FALSE, holder |-> 0]
    /\ globalMetrics = 0
    /\ registries = <<>>
    /\ getter = [a \in Callers |-> [at |-> "idle", ret |-> 0]]

At(a, where) == getter[a].at = where
Move(a, where) == [getter EXCEPT ![a].at = where]

\* GetMetrics is called, for the first time or again: once.Do begins.
GetMetricsCall(a) ==
    /\ At(a, "idle") \/ At(a, "returned")
    /\ getter' = Move(a, "Do")
    /\ UNCHANGED <<once, globalMetrics, registries>>
    /\ UNCHANGED offOnce

\* once.Do, fast path: done is set, Do returns.
OnceDoFast(a) ==
    /\ At(a, "Do")
    /\ once.done
    /\ getter' = Move(a, "return")
    /\ UNCHANGED <<once, globalMetrics, registries>>
    /\ UNCHANGED offOnce

\* A Do that takes the slow path whether or not another caller is in it.
OnceDoLock_NoMutex(a) ==
    /\ At(a, "Do")
    /\ ~once.done
    /\ once' = [once EXCEPT !.holder = a]
    /\ getter' = Move(a, "locked")
    /\ UNCHANGED <<globalMetrics, registries>>
    /\ UNCHANGED offOnce

\* once.Do, slow path: done is not set, the mutex is taken when it is free.
OnceDoLock(a) ==
    /\ At(a, "Do")
    /\ ~once.done
    /\ once.holder = 0
    /\ once' = [once EXCEPT !.holder = a]
    /\ getter' = Move(a, "locked")
    /\ UNCHANGED <<globalMetrics, registries>>
    /\ UNCHANGED offOnce

\* Under the mutex: done was set meanwhile, the mutex is released and Do
\* returns; otherwise the function runs and constructs the registry.
OnceDoRun(a) ==
    /\ At(a, "locked")
    /\ IF once.done
       THEN /\ once' = [once EXCEPT !.holder = 0]
            /\ getter' = Move(a, "return")
            /\ registries' = registries
       ELSE /\ registries' = Append(registries, NewInternalMetrics)
            /\ getter' = [getter EXCEPT ![a].at = "constructed",
                                        ![a].ret = Len(registries) + 1]
            /\ once' = once
    /\ UNCHANGED globalMetrics
    /\ UNCHANGED offOnce

\* globalMetrics = &InternalMetrics{...}
OnceAssign(a) ==
    /\ At(a, "constructed")
    /\ globalMetrics' = getter[a].ret
    /\ getter' = [getter EXCEPT ![a].at = "assigned", ![a].ret = 0]
    /\ UNCHANGED <<once, registries>>
    /\ UNCHANGED offOnce

\* The function has returned: done is set and the mutex released.
OnceDoDone(a) ==
    /\ At(a, "assigned")
    /\ once' = [done |-> TRUE, holder |-> 0]
    /\ getter' = Move(a, "return")
    /\ UNCHANGED <<globalMetrics, registries>>
    /\ UNCHANGED offOnce

\* return globalMetrics
GetMetricsReturn(a) ==
    /\ At(a, "return")
    /\ getter' = [getter EXCEPT ![a].at = "returned", ![a].ret = globalMetrics]
    /\ UNCHANGED <<once, globalMetrics, registries>>
    /\ UNCHANGED offOnce

\* ========================================================== Increment*
\* The Increment functions of the registry, called concurrently. Each locks
\* the registry's mutex, creates the maps and the counter its keys miss, adds
\* one to the counter and unlocks on return.

NumIncCallers == 2
IncCallers == 1..NumIncCallers
MaxIncrements == 3      \* Increment calls begun in a behaviour

\* The calls made: function, first key, second key (none for the one-level
\* map of IncrementQoSMessagesGenerated).
IncCalls ==
    { <<"eventsReceived", "fs1", "CHANNEL_DESTROY">>,
      <<"eventsReceived", "fs1", "RTCP">>,
      <<"eventsProcessed", "fs1", "CHANNEL_DESTROY">>,
      <<"rtcpMessagesProcessed", "fs1", "inbound">>,
      <<"storageOperations", "delete", "error">>,
      <<"qosMessagesGenerated", "fs1", "">> }

OneLevel(c) == c[1] = "qosMessagesGenerated"
Outer(c) == <<c[1], c[2]>>
Absent64 == 0 - 1

NoIncrement == [key |-> <<>>, at |-> "idle", existed |-> FALSE]

IncInit ==
    /\ registry = [mu |-> 0, outer |-> {}, leaf |-> [c \in IncCalls |-> Absent64]]
    /\ incr = [a \in IncCallers |-> NoIncrement]
    /\ completed = [c \in IncCalls |-> 0]

CallsBegun ==
    Cardinality({a \in IncCallers : incr[a].at # "idle"})

RECURSIVE SumCompleted(_)
SumCompleted(S) ==
    IF S = {} THEN 0
    ELSE LET c == CHOOSE x \in S : TRUE IN completed[c] + SumCompleted(S \ {c})

\* m.IncrementX(k1, k2) is called.
IncCall(a) ==
    /\ incr[a].at = "idle"
    /\ SumCompleted(IncCalls) + CallsBegun < MaxIncrements
    /\ \E c \in IncCalls :
          incr' = [incr EXCEPT ![a] = [key |-> c, at |-> "Lock",
                                       existed |-> registry.leaf[c] # Absent64]]
    /\ UNCHANGED <<registry, completed>>
    /\ UNCHANGED offInc

\* A Lock that does not wait for the mutex.
IncLock_NoMutex(a) ==
    /\ incr[a].at = "Lock"
    /\ registry' = [registry EXCEPT !.mu = a]
    /\ incr' = [incr EXCEPT ![a].at = IF OneLevel(incr[a].key) THEN "leaf" ELSE "outer"]
    /\ UNCHANGED completed
    /\ UNCHANGED offInc

\* m.mu.Lock(): the exclusive lock, taken when no one holds it.
IncLock(a) ==
    /\ incr[a].at = "Lock"
    /\ registry.mu = 0
    /\ registry' = [registry EXCEPT !.mu = a]
    /\ incr' = [incr EXCEPT ![a].at = IF OneLevel(incr[a].key) THEN "leaf" ELSE "outer"]
    /\ UNCHANGED completed
    /\ UNCHANGED offInc

\* if _, ok := m.X[k1]; !ok { m.X[k1] = make(map[string]*int64) }: a new
\* inner map holds no counter.
IncEnsureOuter(a) ==
    /\ incr[a].at = "outer"
    /\ \E c \in {incr[a].key} :
          registry' =
             IF Outer(c) \in registry.outer THEN registry
             ELSE [registry EXCEPT
                      !.outer = @ \cup {Outer(c)},
                      !.leaf = [d \in IncCalls |->
                                   IF Outer(d) = Outer(c) THEN Absent64 ELSE @[d]]]
    /\ incr' = [incr EXCEPT ![a].at = "leaf"]
    /\ UNCHANGED completed
    /\ UNCHANGED offInc

\* if _, ok := m.X[k1][k2]; !ok { var counter int64; m.X[k1][k2] = &counter }
IncEnsureLeaf(a) ==
    /\ incr[a].at = "leaf"
    /\ \E c \in {incr[a].key} :
          registry' = IF registry.leaf[c] # Absent64 THEN registry
                      ELSE [registry EXCEPT !.leaf[c] = 0]
    /\ incr' = [incr EXCEPT ![a].at = "add"]
    /\ UNCHANGED completed
    /\ UNCHANGED offInc

\* atomic.AddInt64(m.X[k1][k2], 1)
IncAdd(a) ==
    /\ incr[a].at = "add"
    /\ registry.leaf[incr[a].key] # Absent64
    /\ registry' = [registry EXCEPT !.leaf[incr[a].key] = @ + 1]
    /\ incr' = [incr EXCEPT ![a].at = "Unlock"]
    /\ UNCHANGED completed
    /\ UNCHANGED offInc

\* defer m.mu.Unlock(), and the call returns.
IncUnlock(a) ==
    /\ incr[a].at = "Unlock"
    /\ registry' = [registry EXCEPT !.mu = IF @ = a THEN 0 ELSE @]
    /\ completed' = [completed EXCEPT ![incr[a].key] = @ + 1]
    /\ incr' = [incr EXCEPT ![a] = NoIncrement]
    /\ UNCHANGED offInc

\* ============================================================== logger
\* The package-level functions of the logger, called from several
\* goroutines: Init and InitWithFormat, which construct the default logger
\* inside once.Do, and the functions that check the default logger for nil,
\* call Init(INFO) when they find it nil, and then use it.

NumLogCallers == 2
LogCallers == 1..NumLogCallers

NilLogger == [nil |-> TRUE]

\* The calls made: <<function, level, format>>. Init(level) is
\* InitWithFormat(level, "json").
LogCalls ==
    { <<"InitWithFormat", "DEBUG", "text">>, <<"InitWithFormat", "ERROR", "json">>,
      <<"Init", "WARN", "json">>,
      <<"Info", "", "">>, <<"GetLevel", "", "">>,
      <<"SetLevel", "ERROR", "">>, <<"SetLevel", "DEBUG", "">> }

\* &Logger{level: level, format: format, zlogger: ...}
newLogger(level, format) == [level |-> level, format |-> format]

NoLogCall ==
    [at |-> "idle", ret |-> "", level |-> "", format |-> "", fn |-> "",
     after |-> "", arg |-> "", knows |-> FALSE]

\* once.Do has returned to caller a: Init and InitWithFormat return, with
\* ret telling whether this call constructed the logger; the other
\* functions go on to use the default logger.
DoReturns(a, constructed) ==
    IF logCall[a].after = "use"
    THEN [logCall EXCEPT ![a].at = "use", ![a].knows = TRUE]
    ELSE [logCall EXCEPT ![a] =
             [NoLogCall EXCEPT !.ret = IF constructed THEN "constructed"
                                       ELSE "no-op",
                               !.knows = TRUE]]

LogInit ==
    /\ logOnce = [done |-> FALSE, holder |-> 0]
    /\ defaultLogger = NilLogger
    /\ logCall = [a \in LogCallers |-> NoLogCall]

\* What the unsynchronised read 'defaultLogger == nil' can observe: the
\* pointer, or still nil when nothing orders the read after the write.
RacyRead(a) ==
    IF logCall[a].knows THEN {defaultLogger} ELSE {NilLogger, defaultLogger}

\* Init or InitWithFormat is called: once.Do begins.
LogCallInit(a) ==
    /\ logCall[a].at = "idle"
    /\ \E c \in {d \in LogCalls : d[1] \in {"Init", "InitWithFormat"}} :
          logCall' = [logCall EXCEPT ![a] =
                         [@ EXCEPT !.level = c[2], !.at = "Do", !.format = c[3],
                                   !.fn = c[1], !.after = "idle", !.arg = c[2],
                                   !.ret = ""]]
    /\ UNCHANGED <<logOnce, defaultLogger>>
    /\ UNCHANGED offLog

\* A logging function, GetLevel or SetLevel is called:
\* if defaultLogger == nil { Init(INFO) }
LogCallUse(a) ==
    /\ logCall[a].at = "idle"
    /\ \E c \in {d \in LogCalls : d[1] \notin {"Init", "InitWithFormat"}},
          seen \in RacyRead(a) :
          logCall' = [logCall EXCEPT ![a] =
                         IF seen = NilLogger
                         THEN [@ EXCEPT !.level = "INFO", !.at = "Do",
                                        !.format = "json", !.fn = c[1],
                                        !.after = "use", !.arg = c[2], !.ret = ""]
                         ELSE [@ EXCEPT !.at = "use", !.fn = c[1], !.arg = c[2],
                                        !.knows = TRUE, !.ret = ""]]
    /\ UNCHANGED <<logOnce, defaultLogger>>
    /\ UNCHANGED offLog

\* once.Do, fast path: done is set, Do returns.
LogDoFast(a) ==
    /\ logCall[a].at = "Do"
    /\ logOnce.done
    /\ logCall' = DoReturns(a, FALSE)
    /\ UNCHANGED <<logOnce, defaultLogger>>
    /\ UNCHANGED offLog

\* A Do that returns at once when another caller is running the function.
LogDoLock_ReturnWhenBusy(a) ==
    /\ logCall[a].at = "Do"
    /\ ~logOnce.done
    /\ IF logOnce.holder = 0
       THEN /\ logOnce' = [logOnce EXCEPT !.holder = a]
            /\ logCall' = [logCall EXCEPT ![a].at = "locked"]
       ELSE /\ logOnce' = logOnce
            /\ logCall' = DoReturns(a, FALSE)
    /\ UNCHANGED defaultLogger
    /\ UNCHANGED offLog

\* once.Do, slow path: the mutex is taken when it is free.
LogDoLock(a) ==
    /\ logCall[a].at = "Do"
    /\ ~logOnce.done
    /\ logOnce.holder = 0
    /\ logOnce' = [logOnce EXCEPT !.holder = a]
    /\ logCall' = [logCall EXCEPT ![a].at = "locked"]
    /\ UNCHANGED defaultLogger
    /\ UNCHANGED offLog

\* Under the mutex: done was set meanwhile, Do returns; otherwise
\* defaultLogger = newLogger(level, format, os.Stdout).
LogDoRun(a) ==
    /\ logCall[a].at = "locked"
    /\ IF logOnce.done
       THEN /\ logOnce' = [logOnce EXCEPT !.holder = 0]
            /\ logCall' = DoReturns(a, FALSE)
            /\ defaultLogger' = defaultLogger
       ELSE /\ logOnce' = logOnce
            /\ logCall' = [logCall EXCEPT ![a].at = "ran"]
            /\ defaultLogger' = newLogger(logCall[a].level, logCall[a].format)
    /\ UNCHANGED offLog

\* The function has returned: done is set, the mutex released, Do returns.
LogDoDone(a) ==
    /\ logCall[a].at = "ran"
    /\ logOnce' = [done |-> TRUE, holder |-> 0]
    /\ logCall' = DoReturns(a, TRUE)
    /\ UNCHANGED defaultLogger
    /\ UNCHANGED offLog

\* defaultLogger.log(...), defaultLogger.level read or written under
\* defaultLogger.mu: a nil default logger is a nil pointer dereference.
LogUse(a) ==
    /\ logCall[a].at = "use"
    /\ IF defaultLogger = NilLogger
       THEN /\ logCall' = [logCall EXCEPT ![a].at = "panic"]
            /\ defaultLogger' = defaultLogger
       ELSE /\ logCall' = [logCall EXCEPT ![a] =
                               [NoLogCall EXCEPT !.ret = defaultLogger.level,
                                                 !.knows = TRUE]]
            /\ defaultLogger' =
                  IF logCall[a].fn = "SetLevel"
                  THEN [defaultLogger EXCEPT !.level = logCall[a].arg]
                  ELSE defaultLogger
    /\ UNCHANGED logOnce
    /\ UNCHANGED offLog

\* =================================================== the event pipeline
\* Connection read loop -> outbound queue -> manager's forwarder ->
\* processor's shard queue -> worker. Every queue is bounded and every
\* producer offers without blocking.

NumWorkers == 2
Workers == 0..(NumWorkers - 1)

OutboundCap == 1        \* capacity of a connection's outbound queue
ShardCap == 1           \* capacity of a shard's queue
MaxFrames == 3          \* frames the read loops consume in a behaviour

\* The connections of the pipeline, by instance name.
Fs2 == <<"f", "s", "2">>
Connections == {Fs1, Fs2}

U3 == <<"U", "3">>
PipeChannelIDs == {U1, U2, U3}
PipeKinds == {"early", "termination"}

\* A hash of the ChannelID: the sum of the values of its characters.
CharCode(c) == IF c \in Digits THEN DigitVal(c) + 1 ELSE 0

RECURSIVE Hash(_)
Hash(s) == IF s = <<>> THEN 0 ELSE CharCode(Head(s)) + Hash(Tail(s))

\* A processor that hands the events to its workers in turn.
ShardOf_RoundRobin(ev) == ev.seq % NumWorkers

\* The shard of an event: a hash of its ChannelID over the pool's size.
ShardOf(ev) == Hash(ev.ChannelID) % NumWorkers

\* An offer that always enqueues.
TryOffer_Unbounded(q, ev, cap) == [dropped |-> 0, queue |-> Append(q, ev)]

\* The non-blocking offer to a bounded queue: enqueue when there is room,
\* else drop the incoming event and count it.
TryOffer(q, ev, cap) ==
    IF Len(q) < cap THEN [dropped |-> 0, queue |-> Append(q, ev)]
    ELSE [dropped |-> 1, queue |-> q]

NoEvent == [nil |-> TRUE]

PipeInit ==
    /\ outq = [i \in Connections |-> <<>>]
    /\ shardq = [w \in Workers |-> <<>>]
    /\ busy = [w \in Workers |-> NoEvent]
    /\ held = {}
    /\ accepted = <<>>
    /\ processed = <<>>
    /\ dropped = [outbound |-> [i \in Connections |-> 0],
                  shard |-> [w \in Workers |-> 0]]
    /\ frames = 0

\* The read loop of connection i parses a frame into an event and offers it
\* to the outbound queue.
ReadFrame(i) ==
    /\ frames < MaxFrames
    /\ \E k \in PipeChannelIDs, kind \in PipeKinds :
          \E r \in {TryOffer(outq[i], [ChannelID |-> k, seq |-> frames + 1,
                                       kind |-> kind], OutboundCap)} :
             /\ outq' = [outq EXCEPT ![i] = r.queue]
             /\ dropped' = [dropped EXCEPT !.outbound[i] = @ + r.dropped]
    /\ frames' = frames + 1
    /\ UNCHANGED <<shardq, busy, held, accepted, processed>>
    /\ UNCHANGED offPipe

\* The manager takes an event of connection i and hands it to the processor,
\* which offers it to the queue of its shard.
Forward(i) ==
    /\ outq[i] # <<>>
    /\ \E ev \in {Head(outq[i])} :
          \E w \in {ShardOf(ev)} :
             \E r \in {TryOffer(shardq[w], ev, ShardCap)} :
                /\ shardq' = [shardq EXCEPT ![w] = r.queue]
                /\ dropped' = [dropped EXCEPT !.shard[w] = @ + r.dropped]
                /\ accepted' = IF r.dropped = 0 THEN Append(accepted, ev)
                               ELSE accepted
    /\ outq' = [outq EXCEPT ![i] = Tail(@)]
    /\ UNCHANGED <<busy, held, processed, frames>>
    /\ UNCHANGED offPipe

\* Worker w takes the next event of its shard.
WorkTake(w) ==
    /\ busy[w] = NoEvent
    /\ shardq[w] # <<>>
    /\ busy' = [busy EXCEPT ![w] = Head(shardq[w])]
    /\ shardq' = [shardq EXCEPT ![w] = Tail(@)]
    /\ UNCHANGED <<outq, held, accepted, processed, dropped, frames>>
    /\ UNCHANGED offPipe

\* Worker w finishes its event: an early-call event upserts the state of its
\* ChannelID, a termination event reads and deletes it.
WorkFinish(w) ==
    /\ busy[w] # NoEvent
    /\ \E ev \in {busy[w]} :
          /\ held' = IF ev.kind = "early" THEN held \cup {ev.ChannelID}
                     ELSE held \ {ev.ChannelID}
          /\ processed' = Append(processed,
                                 [ev |-> ev, worker |-> w,
                                  found |-> ev.ChannelID \in held])
    /\ busy' = [busy EXCEPT ![w] = NoEvent]
    /\ UNCHANGED <<outq, shardq, accepted, dropped, frames>>
    /\ UNCHANGED offPipe

\* ================================================= ProtocolConnection
\* One connection: Disconnected -> Connecting -> Authenticating ->
\* Subscribing -> Connected, back to Disconnected on any failure, with the
\* reconnect scheduled after an exponential backoff with jitter.

BackoffBase == 1        \* the first interval
BackoffCap == 8         \* the maximum interval
BackoffJitter == 1      \* the jitter, either way
MaxFailures == 4        \* consecutive failures followed in a behaviour

RECURSIVE Pow2(_)
Pow2(n) == IF n = 0 THEN 1 ELSE 2 * Pow2(n - 1)

Min(a, b) == IF a < b THEN a ELSE b

\* A backoff that doubles without a maximum.
Backoff_Uncapped(n) == BackoffBase * Pow2(n)

\* The interval after n consecutive failures: min(base * 2^n, cap).
Backoff(n) == Min(BackoffBase * Pow2(n), BackoffCap)

Handshake == {"Connecting", "Authenticating", "Subscribing"}

ConnInit ==
    /\ connState = "Disconnected"
    /\ connectFailures = 0
    /\ delay = 0
    /\ waited = 0

\* Time passes while the reconnect timer runs.
ConnWait ==
    /\ connState = "Disconnected"
    /\ waited < delay
    /\ waited' = waited + 1
    /\ UNCHANGED <<connState, connectFailures, delay>>
    /\ UNCHANGED offConn

\* The reconnect timer fires: the next attempt begins.
ConnAttempt ==
    /\ connState = "Disconnected"
    /\ waited = delay
    /\ connState' = "Connecting"
    /\ UNCHANGED <<connectFailures, delay, waited>>
    /\ UNCHANGED offConn

\* Dial, authentication and subscription succeed one after the other; entry
\* to Connected ends the run of consecutive failures.
ConnProgress ==
    /\ connState \in Handshake
    /\ connState' = CASE connState = "Connecting" -> "Authenticating"
                      [] connState = "Authenticating" -> "Subscribing"
                      [] OTHER -> "Connected"
    /\ connectFailures' = IF connState = "Subscribing" THEN 0 ELSE connectFailures
    /\ UNCHANGED <<delay, waited>>
    /\ UNCHANGED offConn

\* A dial, authentication or subscription failure: back to Disconnected,
\* with the reconnect scheduled after the backoff, give or take the jitter.
ConnFail ==
    /\ connState \in Handshake
    /\ connectFailures < MaxFailures
    /\ connState' = "Disconnected"
    /\ connectFailures' = connectFailures + 1
    /\ \E j \in (0 - BackoffJitter)..BackoffJitter :
          delay' = Backoff(connectFailures + 1) + j
    /\ waited' = 0
    /\ UNCHANGED offConn

\* A read error or a keepalive without a timely reply on an established
\* connection: back to Disconnected, the reconnect scheduled as after a
\* failure.
ConnLost ==
    /\ connState = "Connected"
    /\ connState' = "Disconnected"
    /\ \E j \in (0 - BackoffJitter)..BackoffJitter :
          delay' = Backoff(connectFailures) + j
    /\ waited' = 0
    /\ UNCHANGED connectFailures
    /\ UNCHANGED offConn

\* ============================================================ specifications

vars == <<store, now, call, pc, cfg, exitCode, exitCause, deferred, cancelled,
          comp, connected, calls, failures, waiting, expired, calc,
          once, globalMetrics, registries, getter, hist, storeOp,
          outq, shardq, busy, held, accepted, processed, dropped, frames,
          connState, connectFailures, delay, waited,
          registry, incr, completed,
          logOnce, defaultLogger, logCall>>

Init ==
    /\ CalcInit /\ MainInit /\ StepInit /\ OnceInit /\ StoreInit /\ PipeInit
    /\ ConnInit /\ IncInit /\ LogInit

\* The calculator and the store under termination and early-call events.
Next == Termination \/ EarlyCall \/ Tick \/ Sweep

Spec == Init /\ [][Next]_vars

\* The steps of main itself.
MainStep ==
    \/ ParseFlags
    \/ LoadConfig
    \/ ValidateStateStore
    \/ ValidateOTelEndpoint
    \/ CreateContext
    \/ NewStateStore
    \/ NewCalculators
    \/ NewMetricsExporter
    \/ EventProcessorStart
    \/ SetEventForwarder
    \/ ConnManagerStart
    \/ CheckConnections
    \/ HTTPServerStart
    \/ AwaitSignal
    \/ ShutdownCancel
    \/ ShutdownHTTPServer
    \/ ShutdownConnManager
    \/ ShutdownEventProcessor
    \/ ShutdownMetricsExporter
    \/ ShutdownStateStore
    \/ ExporterStopDeadline
    \/ RunDeferred
    \/ MainReturn

\* The process from its start to its exit: main, the shutdown timer, and
\* what goes on in the processor and the connections meanwhile.
MainNext ==
    \/ MainStep
    \/ ShutdownDeadline
    \/ EventProcessorCtxDone
    \/ ConnectionCtxDone
    \/ ConnectionUp
    \/ ConnectionDown

MainSpec == Init /\ [][MainNext]_vars

\* main keeps running and the shutdown timer keeps counting: a step of
\* theirs that stays possible is taken.
MainFairSpec == MainSpec /\ WF_vars(MainStep) /\ WF_vars(ShutdownDeadline)

\* Concurrent CalculateMetrics calls on one store.
StepNext ==
    \/ StepSeed
    \/ \E a \in Calcs : StepBegin(a)
    \/ \E a \in Calcs : StepExtract(a)
    \/ \E a \in Calcs : StepGet(a)
    \/ \E a \in Calcs : StepDelete(a)

StepSpec == Init /\ [][StepNext]_vars

\* Concurrent callers of GetMetrics.
OnceNext ==
    \/ \E a \in Callers : GetMetricsCall(a)
    \/ \E a \in Callers : OnceDoFast(a)
    \/ \E a \in Callers : OnceDoLock(a)
    \/ \E a \in Callers : OnceDoRun(a)
    \/ \E a \in Callers : OnceAssign(a)
    \/ \E a \in Callers : OnceDoDone(a)
    \/ \E a \in Callers : GetMetricsReturn(a)

OnceSpec == Init /\ [][OnceNext]_vars

\* The store under Set, Get, Delete, the passing of time and the sweep.
StoreNext == StoreOpSet \/ StoreOpGet \/ StoreOpDelete \/ Tick \/ Sweep

StoreSpec == Init /\ [][StoreNext]_vars

\* The pipeline: read loops, the manager's forwarder and the workers.
PipeNext ==
    \/ \E i \in Connections : ReadFrame(i)
    \/ \E i \in Connections : Forward(i)
    \/ \E w \in Workers : WorkTake(w)
    \/ \E w \in Workers : WorkFinish(w)

PipeSpec == Init /\ [][PipeNext]_vars

\* One connection and its reconnect loop.
ConnNext == ConnWait \/ ConnAttempt \/ ConnProgress \/ ConnFail \/ ConnLost

ConnSpec == Init /\ [][ConnNext]_vars

\* Concurrent callers of the registry's Increment functions.
IncNext ==
    \E a \in IncCallers :
        \/ IncCall(a)
        \/ IncLock(a)
        \/ IncEnsureOuter(a)
        \/ IncEnsureLeaf(a)
        \/ IncAdd(a)
        \/ IncUnlock(a)

IncSpec == Init /\ [][IncNext]_vars

\* Goroutines calling the logger's functions.
LogNext ==
    \E a \in LogCallers :
        \/ LogCallInit(a)
        \/ LogCallUse(a)
        \/ LogDoFast(a)
        \/ LogDoLock(a)
        \/ LogDoRun(a)
        \/ LogDoDone(a)
        \/ LogUse(a)

LogSpec == Init /\ [][LogNext]_vars

\* ===================================================== claims: calculator

\* The first non-empty string of a list, the empty string when there is none.
RECURSIVE FirstNonEmpty(_)
FirstNonEmpty(values) ==
    IF values = <<>> THEN EmptyStr
    ELSE IF Head(values) # EmptyStr THEN Head(values)
    ELSE FirstNonEmpty(Tail(values))

CorrelationPriority == <<"Other-Leg-Unique-ID", "Unique-ID", "variable_sip_call_id",
                         "variable_global_call_id">>
DomainPriority == <<"variable_domain_name", "variable_sip_from_host",
                    "variable_sip_to_host">>
HeaderValues(event, names) == [i \in 1..Len(names) |-> GetHeader(event, names[i])]

\* The last operation was CalculateMetrics and it got past its two checks.
Calculated == call.op = "termination" /\ call.get # "none"
StateFound == Calculated /\ call.get = "found"
StateLost == Calculated /\ call.get \in {"not found", "backend"}
\* What a Get of the processed event's ChannelID returns now.
SubsequentGet == StoreGet(store, GetHeader(call.event, "Unique-ID"), now, FALSE)

\* C1 (as claimed): after CalculateMetrics processed a termination event whose
\* ChannelID had a state in the store, a subsequent Get of that ChannelID
\* returns not-found, whatever Delete returned.
C1_GoneWhateverDeleteReturned ==
    StateFound => SubsequentGet.err # ""

\* C1 (amended): on the state-found path Delete is always called for the
\* event's ChannelID; when it succeeds a subsequent Get returns not-found, and
\* when the backend fails it the entry is still there.
C1_GoneWhenDeleteSucceeded ==
    StateFound =>
        /\ call.del \in {"ok", "backend"}
        /\ call.del = "ok" => SubsequentGet.err = "not found"
        /\ call.del = "backend" => SubsequentGet.state = call.state

C1_Witness ==
    StateFound /\ call.del = "ok" /\ call.err = ""

\* C2: when Get returns a state, the metric's CorrelationID and DomainName are
\* the stored state's, whatever headers the event carries, also when a stored
\* value is empty.
C2_IdsFromState ==
    StateFound =>
        /\ call.err = ""
        /\ call.metrics.CorrelationID = call.state.CorrelationID
        /\ call.metrics.DomainName = call.state.DomainName

\* A stored state with an empty domain, met by an event that carries a domain
\* header and another correlation id.
C2_Witness ==
    /\ StateFound
    /\ call.state.DomainName = EmptyStr
    /\ call.metrics.DomainName = EmptyStr
    /\ DomainFromHeaders(call.event, NoIds) # EmptyStr

\* C3: when Get yields no state (absent, expired or a failing backend),
\* CalculateMetrics returns a metric and no error, the store is what it was,
\* and the ids come from the event alone: each is a header of the event (or
\* empty, for the domain), and the CorrelationID is the Other-Leg-Unique-ID
\* when the event has one.
C3_MetricUnderStateLoss ==
    StateLost =>
        /\ call.err = ""
        /\ call.metrics # NilMetrics
        /\ call.metrics.ChannelID = GetHeader(call.event, "Unique-ID")
        /\ call.del = "none"
        /\ \E i \in 1..Len(CorrelationPriority) :
              call.metrics.CorrelationID = GetHeader(call.event, CorrelationPriority[i])
        /\ \/ call.metrics.DomainName = EmptyStr
           \/ \E i \in 1..Len(DomainPriority) :
                 call.metrics.DomainName = GetHeader(call.event, DomainPriority[i])
        /\ GetHeader(call.event, "Other-Leg-Unique-ID") # EmptyStr
              => call.metrics.CorrelationID = GetHeader(call.event, "Other-Leg-Unique-ID")

\* The backend fails the Get of an event naming U2 as its other leg.
C3_Witness ==
    /\ StateLost
    /\ call.get = "backend"
    /\ GetHeader(call.event, "Other-Leg-Unique-ID") = U2
    /\ call.metrics.CorrelationID = U2

\* C4: with no state found, the CorrelationID is the first non-empty of
\* Other-Leg-Unique-ID, Unique-ID, variable_sip_call_id,
\* variable_global_call_id; and the rule gives that for every event, carrying
\* a Unique-ID or not.
C4_CorrelationPriority ==
    /\ StateLost =>
          call.metrics.CorrelationID
              = FirstNonEmpty(HeaderValues(call.event, CorrelationPriority))
    /\ \A event \in Events \cup EarlyEvents :
          CorrelationFromHeaders(event, NoIds)
              = FirstNonEmpty(HeaderValues(event, CorrelationPriority))

\* Other-Leg-Unique-ID = X and variable_sip_call_id = Y resolve to X.
C4_Witness ==
    /\ StateLost
    /\ GetHeader(call.event, "Other-Leg-Unique-ID") = U2
    /\ GetHeader(call.event, "variable_sip_call_id") = C1
    /\ call.metrics.CorrelationID = U2

\* C5: with no state found, the DomainName is the first non-empty of
\* variable_domain_name, variable_sip_from_host, variable_sip_to_host, and
\* empty when there is none.
C5_DomainPriority ==
    StateLost =>
        call.metrics.DomainName = FirstNonEmpty(HeaderValues(call.event, DomainPriority))

\* variable_sip_from_host = a.com and no explicit domain resolve to a.com,
\* also when a "to" host is carried.
C5_Witness ==
    /\ StateLost
    /\ GetHeader(call.event, "variable_domain_name") = EmptyStr
    /\ GetHeader(call.event, "variable_sip_from_host") = ACom
    /\ GetHeader(call.event, "variable_sip_to_host") = BCom
    /\ call.metrics.DomainName = ACom

\* C6 (as claimed): a termination event without the codec marker (absent or
\* empty) is a benign skip: CalculateMetrics does not return an error for it.
C6_MissingMarkerIsNotAnError ==
    (call.op = "termination"
        /\ GetHeader(call.event, "variable_rtp_use_codec_rate") = EmptyStr)
    => call.err = ""

FirstCall(f) ==
    IF \E i \in 1..Len(calls) : calls[i] = f
    THEN CHOOSE i \in 1..Len(calls) :
            calls[i] = f /\ \A j \in 1..(i - 1) : calls[j] # f
    ELSE 0

Called(f) == FirstCall(f) > 0

\* The failures after which main calls os.Exit(1).
FatalFailures ==
    {"config.Load", "validate.NewStateStore", "validate.Set", "validate.Get",
     "validate.Delete", "validate.NewMetricsExporter", "validate.exporter.Start",
     "NewStateStore", "NewMetricsExporter", "eventProcessor.Start",
     "no connections", "httpServer.Start"}

\* C8: the shutdown order is strict: the processor's teardown does not begin,
\* by its Stop or by the root context's cancellation reaching it, before
\* ConnectionManager.Stop has completed; the exporter is stopped only after
\* the processor's Stop has completed, and the store is closed only after
\* the exporter's Stop has completed; a stage that fails does not skip the
\* later ones.
C8_StrictShutdownOrder ==
    /\ comp.eventProcessor \in {"cancelled", "stopped"} => comp.connManager = "stopped"
    /\ comp.metricsExporter = "stopped" => comp.eventProcessor = "stopped"
    /\ comp.stateStore = "closed" => comp.metricsExporter = "stopped"
    /\ pc = "return" =>
          /\ Called("connManager.Stop") /\ Called("eventProcessor.Stop")
          /\ Called("metricsExporter.Stop") /\ Called("stateStore.Close")

\* C9: once the state store is closed, neither the EventProcessor, the
\* ConnectionManager nor the HTTP server is called again, the deferred calls
\* that run when main returns included.
C9_NoCallAfterStoreClosed ==
    \A i, j \in 1..Len(calls) :
        (calls[i] = "stateStore.Close" /\ i < j) =>
            calls[j] \notin {"eventProcessor.Start", "eventProcessor.Stop",
                             "connManager.Start", "connManager.Stop",
                             "httpServer.Start", "httpServer.Stop"}

\* C10 as stated: the process exits with a non-zero code only when no
\* instance is connected after startup or when the state store cannot be
\* constructed.
C10_OnlyTwoFatalConditions ==
    exitCode > 0 =>
        exitCause \in {"no connections", "NewStateStore", "validate.NewStateStore"}

\* C10, amended: the process exits with a non-zero code exactly when one of
\* the startup failures main treats as fatal has occurred (configuration
\* load, a step of the startup validation other than stopping the test
\* exporter, store or exporter construction, processor start, no connected
\* instance, HTTP server start), and then at once; every other error (the
\* manager's Start error, the test exporter's Stop error, the error of a
\* shutdown stage) is logged and the process goes on to exit with code 0.
C10_FatalExactlyTheStartupFailures ==
    /\ exitCode > 0 => exitCause \in FatalFailures /\ exitCause \in failures
    /\ failures \cap FatalFailures # {} => pc = "exited" /\ exitCode = 1
    /\ (pc = "exited" /\ failures \cap FatalFailures = {}) => exitCode = 0

\* A telemetry-endpoint validation failure has ended the process.
C10_Witness ==
    /\ pc = "exited"
    /\ exitCode = 1
    /\ exitCause = "validate.exporter.Start"

\* C11: startup goes on exactly when an instance is connected. The error
\* connManager.Start returns never ends the process; when main then reads
\* the status (a step of main: its position changes), it goes on to start the HTTP server if at least one instance
\* is connected and exits with code 1 if none is.
C11_StartupIffConnected ==
    [][/\ (pc = "connManager.Start" /\ pc' # pc) =>
             pc' = "GetStatus" /\ exitCode' = -1
       /\ (pc = "GetStatus" /\ pc' # pc /\ connected # {}) =>
             pc' = "httpServer.Start" /\ exitCode' = -1
       /\ (pc = "GetStatus" /\ pc' # pc /\ connected = {}) =>
             pc' = "exited" /\ exitCode' = 1 /\ exitCause' = "no connections"]_vars

\* Start reported the instances that failed, one instance is connected, and
\* main has gone on to start the HTTP server.
C11_Witness ==
    /\ pc = "httpServer.Start"
    /\ "connManager.Start" \in failures
    /\ connected # {}
    /\ connected # Connections
    /\ exitCode = -1

\* ============================================== claims: concurrent calls

\* The position of a step in a call's steps, 0 when it was not made.
StepIndex(c, step) ==
    IF \E i \in 1..Len(c.steps) : c.steps[i] = step
    THEN CHOOSE i \in 1..Len(c.steps) : c.steps[i] = step
    ELSE 0

\* The calls that observed the stored state of a ChannelID.
Observers(k) ==
    {a \in Calcs : calc[a].get = "found" /\ calc[a].metrics.ChannelID = k}

\* C12 (as claimed): of the termination calculations for one ChannelID that
\* interleave, at most one observes the stored state. Stated here for the
\* runs in which no Delete has failed, which the claim covers too.
C12_AtMostOneObserver ==
    \A k \in ChannelIDs :
        (\A a \in Observers(k) : calc[a].del # "backend")
            => Cardinality(Observers(k)) <= 1

\* C20 (as claimed): on the state-found path the entry is deleted right
\* after the lookup and before the quality, traffic and codec fields are
\* computed from the event.
C20_DeleteBeforeCompute ==
    \A a \in Calcs :
        LET c == calc[a]
        IN  StepIndex(c, "Delete") > 0 =>
               /\ StepIndex(c, "Delete") = StepIndex(c, "Get") + 1
               /\ \A step \in {"extractQualityMetrics", "extractTrafficMetrics",
                               "extractCodecInfo"} :
                     StepIndex(c, step) = 0

\* C20, amended: the quality, traffic and codec fields are computed from the
\* event first; the lookup comes after them, and on the state-found path the
\* Delete is the very next step after the lookup and the last of the call.
C20_ComputeThenLookupThenDelete ==
    \A a \in Calcs :
        LET c == calc[a]
        IN  /\ StepIndex(c, "Get") > 0 =>
                 /\ StepIndex(c, "extractQualityMetrics") = 1
                 /\ StepIndex(c, "extractTrafficMetrics") = 2
                 /\ StepIndex(c, "extractCodecInfo") = 3
                 /\ StepIndex(c, "Get") = 4
            /\ StepIndex(c, "Delete") > 0 =>
                 /\ c.get = "found"
                 /\ StepIndex(c, "Delete") = StepIndex(c, "Get") + 1
                 /\ c.at = Returned
            /\ (c.at = Returned /\ c.get = "found") => StepIndex(c, "Delete") > 0

\* A call has found its state, deleted it and returned with the quality
\* fields of the event.
C20_Witness ==
    \E a \in Calcs :
        /\ calc[a].at = Returned
        /\ calc[a].get = "found"
        /\ calc[a].del = "ok"
        /\ calc[a].metrics.MOSScore = ParseFloat(Mos42).val
        /\ store[calc[a].metrics.ChannelID] = NoEntry

\* ===================================================== claims: shutdown

\* C13 (as claimed): shutdown has one bounded deadline, past which the
\* remaining steps are abandoned: gracefulShutdown, once called, always
\* returns, also when a component's Stop never completes.
C13_ShutdownAlwaysReturns ==
    (pc = "gracefulShutdown") ~> (pc \in {"return", "exited"})

\* ===================================================== claims: GetMetrics

\* The values GetMetrics has returned so far.
ReturnedRegistries == {getter[a].ret : a \in {b \in Callers : At(b, "returned")}}

\* C14: however the callers of GetMetrics interleave, the first calls racing
\* included, every call returns the same registry, with its six maps made,
\* and the registry is constructed once at most (exactly once as soon as a
\* call has returned).
C14_OneRegistry ==
    /\ Len(registries) <= 1
    /\ \A r \in ReturnedRegistries :
          /\ r = 1
          /\ r = globalMetrics
          /\ Len(registries) = 1
          /\ \A m \in DOMAIN registries[r] : registries[r][m] = "map"
          /\ DOMAIN registries[r] = DOMAIN NewInternalMetrics

\* Every caller has returned, and all of them the one registry constructed.
C14_Witness ==
    /\ \A a \in Callers : At(a, "returned") /\ getter[a].ret = 1
    /\ Len(registries) = 1

\* ===================================================== claims: the store

\* What Get(k) returns now, the backend working.
GetNow(k) == StoreGet(store, k, now, FALSE)

C16_ExpiryVisibility ==
    /\ [](\A k \in ChannelIDs :
             /\ GetNow(k).err = ""
                   <=> (hist[k].op = "set" /\ now < hist[k].at + hist[k].ttl)
             /\ GetNow(k).err = "" => GetNow(k).state = hist[k].state
             /\ GetNow(k).err # ""
                   => GetNow(k) = [state |-> NoState, err |-> "not found"])
    /\ [][(storeOp'.op = "Set" /\ storeOp'.err = "" /\ storeOp' # storeOp) =>
             /\ hist'[storeOp'.key].at = now'
             /\ StoreGet(store', storeOp'.key, now', FALSE).err = ""]_vars

\* An entry has expired and the sweep has not removed it yet: the Get just
\* made returned not-found.
C16_Witness ==
    /\ storeOp.op = "Get"
    /\ storeOp.err = "not found"
    /\ store[storeOp.key].present
    /\ hist[storeOp.key].op = "set"
    /\ now >= hist[storeOp.key].at + hist[storeOp.key].ttl

\* ==================================================== claims: the pipeline

\* The position at which event ev has been processed, 0 when it has not.
ProcessedAt(ev) ==
    IF \E n \in 1..Len(processed) : processed[n].ev = ev
    THEN CHOOSE n \in 1..Len(processed) : processed[n].ev = ev
    ELSE 0

\* The events of ev's ChannelID accepted before position j.
EarlierOfLeg(j) ==
    {i \in 1..(j - 1) : accepted[i].ChannelID = accepted[j].ChannelID}

RECURSIVE SumOver(_, _)
SumOver(f, S) ==
    IF S = {} THEN 0
    ELSE LET x == CHOOSE y \in S : TRUE IN f[x] + SumOver(f, S \ {x})

Dropped == SumOver(dropped.outbound, Connections) + SumOver(dropped.shard, Workers)

InFlight ==
    SumOver([i \in Connections |-> Len(outq[i])], Connections)
    + SumOver([w \in Workers |-> Len(shardq[w])
                                 + IF busy[w] = NoEvent THEN 0 ELSE 1], Workers)

\* C18: no queue is ever longer than its bound; a read loop can consume the
\* next frame and the manager can forward the next event whatever the fill
\* of the queue downstream; an offer to a full queue leaves the queue as it
\* is, drops the incoming event and adds one to the queue's drop counter; and
\* every frame consumed is in a queue, with a worker, processed or counted
\* as dropped.
C18_ProducersNeverBlock ==
    /\ [](\A i \in Connections : Len(outq[i]) <= OutboundCap)
    /\ [](\A w \in Workers : Len(shardq[w]) <= ShardCap)
    /\ [](\A i \in Connections :
             /\ frames < MaxFrames => ENABLED ReadFrame(i)
             /\ outq[i] # <<>> => ENABLED Forward(i))
    /\ [](frames = InFlight + Len(processed) + Dropped)
    /\ [][frames' # frames =>
             \E i \in Connections :
                \/ /\ Len(outq[i]) < OutboundCap
                   /\ Len(outq'[i]) = Len(outq[i]) + 1
                   /\ dropped' = dropped
                \/ /\ Len(outq[i]) = OutboundCap
                   /\ outq' = outq
                   /\ dropped' = [dropped EXCEPT !.outbound[i] = @ + 1]]_vars
    /\ [][(outq' # outq /\ frames' = frames) =>
             \E i \in Connections :
                /\ outq[i] # <<>>
                /\ outq' = [outq EXCEPT ![i] = Tail(@)]
                /\ LET ev == Head(outq[i])
                       w == ShardOf(ev)
                   IN  \/ /\ Len(shardq[w]) < ShardCap
                          /\ shardq' = [shardq EXCEPT ![w] = Append(@, ev)]
                          /\ dropped' = dropped
                       \/ /\ Len(shardq[w]) = ShardCap
                          /\ shardq' = shardq
                          /\ dropped' = [dropped EXCEPT !.shard[w] = @ + 1]]_vars

\* Both kinds of queue have been full when an event was offered: each has
\* counted a drop, and the read loops went on to consume every frame.
C18_Witness ==
    /\ \E i \in Connections : dropped.outbound[i] > 0
    /\ \E w \in Workers : dropped.shard[w] > 0
    /\ frames = MaxFrames

\* ================================================== claims: the connection

ConnStates == Handshake \cup {"Disconnected", "Connected"}

\* C19: after N >= 1 consecutive connect failures the next attempt begins no
\* sooner than min(base * 2^N, cap) - jitter after the failure and no later
\* than cap + jitter after it; and a failure is never fatal: the connection
\* is always in one of its states, and whenever it is Disconnected its timer
\* is running or its next attempt can begin.
C19_ReconnectBackoff ==
    /\ [][(connState = "Disconnected" /\ connState' = "Connecting"
              /\ connectFailures >= 1) =>
             /\ waited >= Min(BackoffBase * Pow2(connectFailures), BackoffCap)
                             - BackoffJitter
             /\ waited <= BackoffCap + BackoffJitter]_vars
    /\ [](connState \in ConnStates)
    /\ [](connState = "Disconnected" => (ENABLED ConnWait \/ ENABLED ConnAttempt))
    /\ [](connState = "Disconnected" => waited <= delay)

\* An attempt begins after so many consecutive failures that the doubled
\* interval is past the maximum, as late as the jitter allows.
C19_Witness ==
    /\ connState = "Connecting"
    /\ connectFailures >= 1
    /\ BackoffBase * Pow2(connectFailures) > BackoffCap
    /\ waited = BackoffCap + BackoffJitter

\* ============================================ claims: calculator, continued

JitterOf(event, name) ==
    IF GetHeader(event, name) = EmptyStr THEN 0
    ELSE IF ParseFloat(GetHeader(event, name)).ok
    THEN ParseFloat(GetHeader(event, name)).val
    ELSE 0

\* C24: the metric's AvgJitter is (MinJitter + MaxJitter) / 2 when one of the
\* two is greater than 0 and 0 otherwise, MinJitter and MaxJitter being the
\* headers' values, or 0 for a header that is missing or does not parse;
\* min 1.0 and max 3.0 give 2.0.
C24_AvgJitter ==
    /\ (Calculated /\ call.err = "") =>
          LET mn == JitterOf(call.event, "variable_rtp_audio_in_jitter_min_variance")
              mx == JitterOf(call.event, "variable_rtp_audio_in_jitter_max_variance")
          IN  /\ call.metrics.MinJitter = mn
              /\ call.metrics.MaxJitter = mx
              /\ call.metrics.AvgJitter
                    = IF mn > 0 \/ mx > 0 THEN (mn + mx) \div 2 ELSE 0
    /\ (Calculated /\ call.event = TermA) =>
          call.metrics.AvgJitter = ParseFloat(<<"2", ".", "0">>).val

\* A metric whose minimum is missing or unparsable and whose maximum is 3.0:
\* the average is 1.5.
C24_Witness ==
    /\ Calculated
    /\ call.err = ""
    /\ JitterOf(call.event, "variable_rtp_audio_in_jitter_min_variance") = 0
    /\ GetHeader(call.event, "variable_rtp_audio_in_jitter_max_variance") = Jit30
    /\ call.metrics.AvgJitter = ParseFloat(<<"1", ".", "5">>).val

HasMarkerAndId(event) ==
    /\ GetHeader(event, "variable_rtp_use_codec_rate") # EmptyStr
    /\ GetHeader(event, "Unique-ID") # EmptyStr

\* C25: CalculateMetrics returns an error for exactly the events without the
\* codec marker or without a Unique-ID; for every other event, whatever its
\* other headers and whatever Get and Delete return, it returns a metric
\* whose ChannelID is the Unique-ID and whose InstanceName is the instance
\* name given, a quality field being zero when its header is absent or does
\* not parse.
C25_TwoErrorOutcomes ==
    call.op = "termination" =>
        /\ call.err # "" <=> ~HasMarkerAndId(call.event)
        /\ call.err \in {"", ErrNoCodecRate, ErrNoUniqueID}
        /\ call.err # "" => call.metrics = NilMetrics
        /\ call.err = "" =>
              /\ call.metrics # NilMetrics
              /\ call.metrics.ChannelID = GetHeader(call.event, "Unique-ID")
              /\ call.metrics.InstanceName = call.instance
              /\ ~ParseFloat(GetHeader(call.event, "variable_rtp_audio_in_mos")).ok
                    => call.metrics.MOSScore = 0

\* The backend failed the Get of an event whose MOS header does not parse:
\* the metric is returned, its MOS zero.
C25_Witness ==
    /\ call.op = "termination"
    /\ call.get = "backend"
    /\ call.err = ""
    /\ GetHeader(call.event, "variable_rtp_audio_in_mos") = NotANumber
    /\ call.metrics.MOSScore = 0
    /\ call.metrics.InstanceName = Fs1

\* C26: a termination event that CalculateMetrics rejects (no codec marker or
\* no Unique-ID) leaves the store as it was, without a Get or a Delete; and
\* no call of CalculateMetrics adds or changes an entry: the only change it
\* makes is the removal of the entry of the event's ChannelID.
C26_RejectedEventLeavesStore ==
    [][call'.op = "termination" =>
          /\ call'.err # "" =>
                /\ store' = store
                /\ call'.get = "none"
                /\ call'.del = "none"
          /\ \A k \in ChannelIDs :
                \/ store'[k] = store[k]
                \/ /\ store'[k] = NoEntry
                   /\ k = GetHeader(call'.event, "Unique-ID")
                   /\ call'.del = "ok"]_vars

\* An event of U1 without the codec marker has been rejected while the state
\* of U1 is in the store.
C26_Witness ==
    /\ call.op = "termination"
    /\ call.err = ErrNoCodecRate
    /\ GetHeader(call.event, "Unique-ID") = U1
    /\ StoreGet(store, U1, now, FALSE).err = ""

\* C27: with no state found the CorrelationID is never empty: it is the
\* Other-Leg-Unique-ID when the event has one and the event's own Unique-ID
\* otherwise, whatever variable_sip_call_id and variable_global_call_id hold.
C27_FallbackIsOtherLegOrOwnId ==
    StateLost =>
        /\ call.metrics.CorrelationID # EmptyStr
        /\ call.metrics.CorrelationID
              = IF GetHeader(call.event, "Other-Leg-Unique-ID") # EmptyStr
                THEN GetHeader(call.event, "Other-Leg-Unique-ID")
                ELSE GetHeader(call.event, "Unique-ID")

\* An event with a signalling call id and a global call id and no other leg:
\* the CorrelationID is its own Unique-ID.
C27_Witness ==
    /\ StateLost
    /\ GetHeader(call.event, "Other-Leg-Unique-ID") = EmptyStr
    /\ GetHeader(call.event, "variable_sip_call_id") = C1
    /\ GetHeader(call.event, "variable_global_call_id") = G1
    /\ call.metrics.CorrelationID = U1

\* ==================================================== claims: Increment*

\* The calls of counter c that have added and not returned yet.
Adding(c) == Cardinality({a \in IncCallers : incr[a].at = "Unlock" /\ incr[a].key = c})

CounterValue(c) == IF registry.leaf[c] = Absent64 THEN 0 ELSE registry.leaf[c]

\* C22: no Increment is lost: every counter's value is the number of calls
\* made with its keys that have returned, plus those that have added and are
\* about to return, also when callers race to create it; a step changes the
\* counter of the caller's keys only, and no counter decreases.
C22_NoLostUpdates ==
    /\ [](\A c \in IncCalls : CounterValue(c) = completed[c] + Adding(c))
    /\ []((\A a \in IncCallers : incr[a].at = "idle") =>
             \A c \in IncCalls : CounterValue(c) = completed[c])
    /\ [][\A c \in IncCalls :
             /\ registry'.leaf[c] >= registry.leaf[c]
             /\ registry'.leaf[c] # registry.leaf[c] =>
                   \E a \in IncCallers : incr[a].key = c /\ registry.mu = a]_vars

\* Two callers raced to create one counter: the one that found it created by
\* the other, whose call has returned, has added to it, and the counter is 2.
C22_Witness ==
    \E a \in IncCallers :
        /\ incr[a].at = "Unlock"
        /\ ~incr[a].existed
        /\ completed[incr[a].key] = 1
        /\ registry.leaf[incr[a].key] = 2

\* C23 (as claimed): an Increment of a counter that already exists adds
\* without holding the registry's exclusive lock.
C23_AddWithoutExclusiveLock ==
    \A a \in IncCallers :
        (incr[a].at = "add" /\ incr[a].existed) => registry.mu # a

\* ======================================================== claims: logger

\* C28: initialisation of the default logger is first-wins. The default
\* logger is constructed once, with the level and format of the call whose
\* once.Do ran the function (an Init, an InitWithFormat or the Init(INFO) of
\* a function that found it nil); afterwards no Init or InitWithFormat
\* changes it, its format never changes and its level changes only by
\* SetLevel, to SetLevel's argument; and no function dereferences a nil
\* default logger, however the first uses interleave.
C28_FirstInitWins ==
    /\ [](\A a \in LogCallers : logCall[a].at # "panic")
    /\ [](logOnce.done => defaultLogger # NilLogger)
    /\ [][(defaultLogger = NilLogger /\ defaultLogger' # NilLogger) =>
             \E a \in LogCallers :
                /\ logCall[a].at = "locked"
                /\ defaultLogger' = [level |-> logCall[a].level,
                                     format |-> logCall[a].format]]_vars
    /\ [][defaultLogger # NilLogger =>
             /\ defaultLogger' # NilLogger
             /\ defaultLogger'.format = defaultLogger.format
             /\ defaultLogger'.level # defaultLogger.level =>
                   \E a \in LogCallers :
                      /\ logCall[a].at = "use"
                      /\ logCall[a].fn = "SetLevel"
                      /\ logCall'[a].at = "idle"
                      /\ defaultLogger'.level = logCall[a].arg]_vars

\* An Init or InitWithFormat has returned without constructing the logger,
\* which was constructed by InitWithFormat(DEBUG, "text") and has since
\* been set to ERROR by SetLevel.
C28_Witness ==
    \E a \in LogCallers :
        /\ logCall[a].at = "idle"
        /\ logCall[a].ret = "no-op"
        /\ defaultLogger = [level |-> "ERROR", format |-> "text"]

\* ============================================ claims: process, continued

\* C29: every component that was started or opened is stopped or closed
\* before the process exits: when the process has exited after the state
\* store was created and the processor started, EventProcessor.Stop,
\* ConnectionManager.Stop (if the manager was started) and the store's Close
\* have been called.
C29_StartedIsStoppedBeforeExit ==
    (pc = "exited" /\ Called("NewStateStore") /\ Called("eventProcessor.Start")) =>
        /\ Called("eventProcessor.Stop")
        /\ Called("connManager.Start") => Called("connManager.Stop")
        /\ Called("stateStore.Close")

\* One call was made before another.
Before(f, g) == 0 < FirstCall(f) /\ FirstCall(f) < FirstCall(g)

====
